---- MODULE Spec2Model ----
(***************************************************************************)
(* A model of the webhook dispatcher of webhook_server.py: the payload     *)
(* classifier check_payload, the pending-order registry                   *)
(* OrderTrackingManager and the request handler handle_device_scan.        *)
(*                                                                         *)
(* Python strings are TLA+ strings, read with Len, SubSeq and \o.          *)
(* A Python value (None, str, int, bool, dict) is a record                 *)
(*   [t |-> its type, s |-> its text, f |-> its members]                   *)
(* so that values of different types can be compared.                      *)
(***************************************************************************)
EXTENDS Integers, Sequences, FiniteSets, TLC

(***************************************************************************)
(* Strings                                                                 *)
(***************************************************************************)
Digits == {"0", "1", "2", "3", "4", "5", "6", "7", "8", "9"}

Letters ==
    {"a", "b", "c", "d", "e", "f", "g", "h", "i", "j", "k", "l", "m",
     "n", "o", "p", "q", "r", "s", "t", "u", "v", "w", "x", "y", "z",
     "A", "B", "C", "D", "E", "F", "G", "H", "I", "J", "K", "L", "M",
     "N", "O", "P", "Q", "R", "S", "T", "U", "V", "W", "X", "Y", "Z"}

\* The characters with a code point below 32 that a TLA+ string can hold.
ControlChars == {"\t", "\n", "\r", "\f"}

\* str.strip() and the JSON scanner's white space.
StripChars == {" ", "\t", "\n", "\r", "\f"}

JsonWhitespace == {" ", "\t", "\n", "\r"}

CharAt(s, i) == SubSeq(s, i, i)

\* The text lit stands in s at position i.
LiteralAt(s, i, lit) ==
    /\ i + Len(lit) - 1 <= Len(s)
    /\ SubSeq(s, i, i + Len(lit) - 1) = lit

\* sub in s
Contains(s, sub) ==
    \E i \in 1..(Len(s) - Len(sub) + 1) : SubSeq(s, i, i + Len(sub) - 1) = sub

\* s.startswith(prefix)
StartsWith(s, prefix) ==
    /\ Len(prefix) <= Len(s)
    /\ SubSeq(s, 1, Len(prefix)) = prefix

\* s.isalnum(): at least one character, all of them letters or digits
IsAlnum(s) ==
    /\ Len(s) > 0
    /\ \A i \in 1..Len(s) : CharAt(s, i) \in Digits \cup Letters

\* The first position from i on where s holds a character of stop, or 0.
FirstOf(s, i, stop) ==
    IF \E j \in i..Len(s) : CharAt(s, j) \in stop
    THEN CHOOSE j \in i..Len(s) :
            /\ CharAt(s, j) \in stop
            /\ \A k \in i..(j - 1) : CharAt(s, k) \notin stop
    ELSE 0

\* s.split(sep) for a one-character separator: the sequence of the parts
RECURSIVE SplitFrom(_, _, _)
SplitFrom(s, sep, start) ==
    LET j == FirstOf(s, start, {sep}) IN
    IF j = 0 THEN <<SubSeq(s, start, Len(s))>>
    ELSE <<SubSeq(s, start, j - 1)>> \o SplitFrom(s, sep, j + 1)

Split(s, sep) == SplitFrom(s, sep, 1)

\* s.strip()
RECURSIVE LStrip(_)
LStrip(s) ==
    IF Len(s) > 0 /\ CharAt(s, 1) \in StripChars
    THEN LStrip(SubSeq(s, 2, Len(s)))
    ELSE s

RECURSIVE RStrip(_)
RStrip(s) ==
    IF Len(s) > 0 /\ CharAt(s, Len(s)) \in StripChars
    THEN RStrip(SubSeq(s, 1, Len(s) - 1))
    ELSE s

Strip(s) == RStrip(LStrip(s))

\* A faulty variant of LastChars: a slice that keeps the whole text.
WholeText(s, n) == s

\* s[-n:]
LastChars(s, n) ==
    IF Len(s) <= n THEN s ELSE SubSeq(s, Len(s) - n + 1, Len(s))

\* Removes the control characters other than \n, \r and \t.
RECURSIVE clean_control_characters(_)
clean_control_characters(s) ==
    LET j == FirstOf(s, 1, ControlChars \ {"\n", "\r", "\t"}) IN
    IF j = 0 THEN s
    ELSE SubSeq(s, 1, j - 1) \o clean_control_characters(SubSeq(s, j + 1, Len(s)))

(***************************************************************************)
(* Python values and json.loads                                            *)
(***************************************************************************)
NoMembers == [k \in {} |-> ""]

PyNone == [t |-> "none", s |-> "", f |-> NoMembers]

PyStr(s) == [t |-> "str", s |-> s, f |-> NoMembers]

PyInt(s) == [t |-> "int", s |-> s, f |-> NoMembers]

PyBool(s) == [t |-> "bool", s |-> s, f |-> NoMembers]

PyDict(f) == [t |-> "dict", s |-> "", f |-> f]

\* A value of a type the handler does not expect (a payload that is no string).
PyOther == [t |-> "other", s |-> "", f |-> NoMembers]

\* d.get(key, default)
DictGet(d, key, default) ==
    IF key \in DOMAIN d.f THEN d.f[key] ELSE default

\* bool(v)
Truthy(v) ==
    CASE v.t = "none" -> FALSE
      [] v.t = "str" -> Len(v.s) > 0
      [] v.t = "int" -> v.s \notin {"0", "-0"}
      [] v.t = "bool" -> v.s = "true"
      [] v.t = "dict" -> DOMAIN v.f # {}
      [] OTHER -> TRUE

\* The scanner's result: ok = FALSE stands for json.JSONDecodeError.
ScanError == [ok |-> FALSE, pos |-> 0, val |-> PyNone]

Scanned(val, pos) == [ok |-> TRUE, pos |-> pos, val |-> val]

RECURSIVE SkipWs(_, _)
SkipWs(s, i) ==
    IF i <= Len(s) /\ CharAt(s, i) \in JsonWhitespace THEN SkipWs(s, i + 1) ELSE i

\* A string literal whose opening quote is at i - 1; acc is the text so far.
\* Of the escapes only \" \\ and \/ are read; a control character ends the
\* scan with an error (json.loads is strict).
RECURSIVE ScanString(_, _, _)
ScanString(s, i, acc) ==
    LET j == FirstOf(s, i, {"\"", "\\"} \cup ControlChars) IN
    IF j = 0 THEN ScanError
    ELSE LET c == CharAt(s, j)
             text == acc \o SubSeq(s, i, j - 1)
         IN IF c = "\"" THEN Scanned(PyStr(text), j + 1)
            ELSE IF c \in ControlChars THEN ScanError
            ELSE IF j + 1 <= Len(s) /\ CharAt(s, j + 1) \in {"\"", "\\", "/"}
                 THEN ScanString(s, j + 2, text \o CharAt(s, j + 1))
                 ELSE ScanError

RECURSIVE DigitsEnd(_, _)
DigitsEnd(s, i) ==
    IF i <= Len(s) /\ CharAt(s, i) \in Digits THEN DigitsEnd(s, i + 1) ELSE i

\* An integer literal at i: -? (0 | [1-9][0-9]*)
ScanNumber(s, i) ==
    LET start == IF i <= Len(s) /\ CharAt(s, i) = "-" THEN i + 1 ELSE i
        stop == IF start <= Len(s) /\ CharAt(s, start) = "0"
                THEN start + 1
                ELSE DigitsEnd(s, start)
    IN IF stop = start THEN ScanError
       ELSE Scanned(PyInt(SubSeq(s, i, stop - 1)), stop)

RECURSIVE ScanValue(_, _)
RECURSIVE ScanMembers(_, _, _)

\* The members of an object after its "{" (or after a ","): i is at a key.
\* A repeated key keeps its last value.
ScanMembers(s, i, f) ==
    IF i > Len(s) \/ CharAt(s, i) # "\"" THEN ScanError
    ELSE LET key == ScanString(s, i + 1, "") IN
         IF ~key.ok THEN ScanError
         ELSE LET colon == SkipWs(s, key.pos) IN
              IF colon > Len(s) \/ CharAt(s, colon) # ":" THEN ScanError
              ELSE LET v == ScanValue(s, SkipWs(s, colon + 1)) IN
                   IF ~v.ok THEN ScanError
                   ELSE LET g == [k \in DOMAIN f \cup {key.val.s} |->
                                     IF k = key.val.s THEN v.val ELSE f[k]]
                            next == SkipWs(s, v.pos)
                        IN IF next > Len(s) THEN ScanError
                           ELSE IF CharAt(s, next) = "}"
                                THEN Scanned(PyDict(g), next + 1)
                           ELSE IF CharAt(s, next) = ","
                                THEN ScanMembers(s, SkipWs(s, next + 1), g)
                           ELSE ScanError

\* One JSON value at i: an object, a string, an integer, null, true or false.
ScanValue(s, i) ==
    IF i > Len(s) THEN ScanError
    ELSE LET c == CharAt(s, i) IN
         IF c = "\"" THEN ScanString(s, i + 1, "")
         ELSE IF c = "{"
              THEN LET j == SkipWs(s, i + 1) IN
                   IF j <= Len(s) /\ CharAt(s, j) = "}"
                   THEN Scanned(PyDict(NoMembers), j + 1)
                   ELSE ScanMembers(s, j, NoMembers)
         ELSE IF c = "-" \/ c \in Digits THEN ScanNumber(s, i)
         ELSE IF LiteralAt(s, i, "null") THEN Scanned(PyNone, i + 4)
         ELSE IF LiteralAt(s, i, "true") THEN Scanned(PyBool("true"), i + 4)
         ELSE IF LiteralAt(s, i, "false") THEN Scanned(PyBool("false"), i + 5)
         ELSE ScanError

\* json.loads(s): [ok, val]; ok = FALSE is json.JSONDecodeError.
json_loads(s) ==
    LET v == ScanValue(s, SkipWs(s, 1)) IN
    IF v.ok /\ SkipWs(s, v.pos) = Len(s) + 1
    THEN [ok |-> TRUE, val |-> v.val]
    ELSE [ok |-> FALSE, val |-> PyNone]


(***************************************************************************)
(* The clock and the pending-order registry (OrderTrackingManager)         *)
(***************************************************************************)
\* The clock counts ticks of 1/TicksPerSecond second: datetime.now() is finer
\* than a second, and timedelta.seconds drops the fraction.
TicksPerSecond == 2

\* timedelta keeps whole days apart from its seconds field.
SecondsPerDay == 86400

cleanup_timeout == 10

\* (later - earlier).seconds for two datetimes that are delta ticks apart:
\* the seconds field of the timedelta, without its days and its fraction.
TimedeltaSeconds(delta) == (delta \div TicksPerSecond) % SecondsPerDay

\* The expiry test of process_tracking_code and of cleanup_expired.
Expired(order_info, t) ==
    TimedeltaSeconds(t - order_info.timestamp) > cleanup_timeout

\* A dict key: True and 1 (False and 0) are the same key, dicts are unhashable.
Hashable(v) == v.t # "dict"

DictKey(v) ==
    IF v.t = "bool" THEN PyInt(IF v.s = "true" THEN "1" ELSE "0")
    ELSE IF v = PyInt("-0") THEN PyInt("0")
    ELSE v

NoOrders == [d \in {} |-> 0]

\* A faulty variant of Remove: a pop that takes the entry and leaves it in
\* the registry.
KeepAll(po, device_id) == po

\* del pending_orders[device_id] and the registry's part of pop(device_id)
Remove(po, device_id) == [d \in DOMAIN po \ {device_id} |-> po[d]]

\* A faulty variant of register_order: a registration that keeps the entry
\* the device already has.
register_if_absent(po, device_id, order_type, order_data, t) ==
    [d \in DOMAIN po \cup {device_id} |->
        IF d \in DOMAIN po
        THEN po[d]
        ELSE [type |-> order_type, timestamp |-> t, order_data |-> order_data]]

\* self.pending_orders[device_id] = {...} at the time t
register_order(po, device_id, order_type, order_data, t) ==
    [d \in DOMAIN po \cup {device_id} |->
        IF d = device_id
        THEN [type |-> order_type, timestamp |-> t, order_data |-> order_data]
        ELSE po[d]]

\* str(v) inside an f-string
PyText(v) ==
    CASE v.t \in {"str", "int"} -> v.s
      [] v.t = "none" -> "None"
      [] v.t = "bool" -> IF v.s = "true" THEN "True" ELSE "False"
      [] OTHER -> "{...}"

\* len(v) is defined for strings and dicts
HasLen(v) == v.t \in {"str", "dict"}

PyLen(v) == IF v.t = "str" THEN Len(v.s) ELSE Cardinality(DOMAIN v.f)

\* What save_order_number or save_tracking_number is called with.
NoSave == [fn |-> "", device_id |-> PyNone, kind |-> "", number |-> PyNone]

\* The result of process_tracking_code: the registry it leaves, its return
\* value (success, message), the save it made and the exception it raised.
PtcResult(po, success, message, saved, raised) ==
    [po |-> po, success |-> success, message |-> message, saved |-> saved,
     raised |-> raised]

\* process_tracking_code from its pop on: the entry is removed first.
pop_and_resolve(po, device_id, tracking_data, t) ==
    IF device_id \notin DOMAIN po
    THEN PtcResult(po, FALSE, "", NoSave, "KeyError")
    ELSE
    LET order_info == po[device_id]
        rest == Remove(po, device_id)
        msg == DictGet(tracking_data, "msg", PyStr(""))
    IN
    IF Expired(order_info, t)
    THEN PtcResult(rest, FALSE, "Tracking code timeout", NoSave, "")
    ELSE IF tracking_data.t # "dict"
    THEN PtcResult(rest, FALSE, "", NoSave, "AttributeError")
    ELSE IF order_info.type \in {"fedex_warehouse", "non_fedex_warehouse"}
    THEN IF ~HasLen(msg) \/ (msg.t = "dict" /\ PyLen(msg) >= 12)
         THEN PtcResult(rest, FALSE, "", NoSave, "TypeError")
         ELSE LET order_number ==
                      IF msg.t = "str" THEN PyStr(LastChars(msg.s, 12)) ELSE msg
              IN PtcResult(rest, TRUE,
                     "Order number " \o PyText(order_number) \o " saved for "
                         \o order_info.type,
                     [fn |-> "save_order_number", device_id |-> device_id,
                      kind |-> order_info.type, number |-> order_number],
                     "")
    ELSE IF order_info.type = "ups_code"
    THEN PtcResult(rest, TRUE,
             "UPS tracking number " \o PyText(msg) \o " saved",
             [fn |-> "save_tracking_number", device_id |-> device_id,
              kind |-> "ups", number |-> msg],
             "")
    ELSE PtcResult(rest, FALSE, "Unknown order type", NoSave, "")

\* process_tracking_code(device_id, tracking_data) called at the time t
process_tracking_code(po, device_id, tracking_data, t) ==
    IF device_id \notin DOMAIN po
    THEN PtcResult(po, FALSE, "No pending order for this device", NoSave, "")
    ELSE pop_and_resolve(po, device_id, tracking_data, t)

\* The list expired_devices that cleanup_expired builds at the time t.
ExpiredDevices(po, t) == {d \in DOMAIN po : Expired(po[d], t)}

\* cleanup_expired() run at the time t with no other thread in between
cleanup_expired(po, t) ==
    [d \in DOMAIN po \ ExpiredDevices(po, t) |-> po[d]]

(***************************************************************************)
(* The request payloads of the model                                       *)
(***************************************************************************)
RcScan == "{\"msg\":\"RC-102-011243\",\"id\":\"s1\"}"

RcScanUpsDigits == "{\"msg\":\"RC-102-370401\",\"id\":\"s1\"}"

UpsCode == "{\"msg\":\"42184037040\",\"id\":\"d1\"}"

UpsCodeRaw == "(421)84037040"

FedexOrder == "{\"msg\":\"FBA15K7 Lyons Park, Coventry, West Midlands\",\"id\":\"d1\"}"

NonFedexOrder ==
    "{\"msg\":\"Order 1001 to J Smith, 1 High Street, Leeds, LS1 1AA, UK\",\"id\":\"d1\"}"

TrackingCode == "{\"msg\":\"1Z999AA10123456784\",\"id\":\"d1\"}"

ShortCode == "{\"msg\":\"TRK123\",\"id\":\"d1\"}"

NotJson == "not json"

BadRcMsg == "{\"msg\":\"RC-1-2345-678\",\"id\":\"s1\"}"

\* A UPS code with a form feed in it, which clean_control_characters removes
UpsCodeFormFeed == "(421)840370\f40"

UpsCodeNoId == "{\"msg\":\"42184037040\"}"

RcScanAlnum == "{\"msg\":\"RC-A1b-12cd56\",\"id\":\"s1\"}"

NoMsg == "{\"id\":\"d1\"}"

NullMsg == "{\"msg\":null,\"id\":\"d1\"}"

IntMsg == "{\"msg\":12345,\"id\":\"d1\"}"

DictId == "{\"msg\":\"TRK123\",\"id\":{\"n\":1}}"

JsonNumber == "12345"

JsonText == "\"scan\""

JsonNull == "null"

\* A FedEx order whose msg is longer than 50 characters
FedexLong ==
    "{\"msg\":\"FBA15K7 Unit 4, Lyons Park, Sayer Drive, Coventry, West Midlands\",\"id\":\"d1\"}"

\* A short code from a scanner that sends no id
ShortNoId == "{\"msg\":\"TRK123\"}"

\* Payloads of 39 characters that start with RC-: two parts, three parts
\* with a long third part, and four parts that begin with a serial
Rc39TwoParts == "RC-102011243abcdefghijklmnopqrstuvwxyz0"

Rc39LongPart == "RC-102-011243abcdefghijklmnopqrstuvwxyz"

Rc39Serial == "RC-102-011243-abcdefghijklmnopqrstuvwxy"

\* A payload of 39 characters once its form feed is removed
Rc39FormFeed == "RC-102-011243\f-abcdefghijklmnopqrstuvwxy"

\* The digits of a UPS code alone: a JSON number
UpsNumber == "84037040"

PayloadStrings ==
    {RcScan, RcScanUpsDigits, UpsCode, UpsCodeRaw, FedexOrder, NonFedexOrder,
     TrackingCode, ShortCode, NotJson, BadRcMsg, UpsCodeFormFeed, UpsCodeNoId,
     RcScanAlnum, NoMsg, NullMsg, IntMsg, DictId, JsonNumber, JsonText, JsonNull,
     UpsNumber, FedexLong, ShortNoId, Rc39TwoParts, Rc39LongPart, Rc39Serial,
     Rc39FormFeed}

\* json.loads and clean_control_characters of the model's payloads, computed
\* once: a table of the two operators, not a second definition of them.
CleanedTable == [s \in PayloadStrings |-> clean_control_characters(s)]

Cleaned(s) == IF s \in DOMAIN CleanedTable THEN CleanedTable[s] ELSE clean_control_characters(s)

LoadsTable ==
    [s \in PayloadStrings \cup {CleanedTable[p] : p \in PayloadStrings} |-> json_loads(s)]

Loads(s) == IF s \in DOMAIN LoadsTable THEN LoadsTable[s] ELSE json_loads(s)

\* A faulty variant of RcShape: the parts must be digits.
RcShapeDigits(parts) ==
    /\ Len(parts) = 3
    /\ Len(parts[2]) = 3
    /\ Len(parts[3]) = 6
    /\ \A i \in 1 .. 3 : CharAt(parts[2], i) \in Digits
    /\ \A i \in 1 .. 6 : CharAt(parts[3], i) \in Digits

(***************************************************************************)
(* check_payload                                                           *)
(***************************************************************************)
\* The shape test of both RC checks on the parts of text.split('-'): three
\* parts, the second of 3 and the third of 6 characters, both alphanumeric.
\* A faulty variant of RcShape: a test that looks at the first three parts
\* and does not count them.
RcShapeFirstParts(parts) ==
    /\ Len(parts) >= 3
    /\ Len(parts[2]) = 3
    /\ Len(parts[3]) = 6
    /\ IsAlnum(parts[2])
    /\ IsAlnum(parts[3])

RcShape(parts) ==
    /\ Len(parts) = 3
    /\ Len(parts[2]) = 3
    /\ Len(parts[3]) = 6
    /\ IsAlnum(parts[2])
    /\ IsAlnum(parts[3])

RcParts(text) == RcShape(Split(text, "-"))

\* sub in msg: a substring test on a string, a key test on a dict
MsgContains(msg, sub) ==
    IF msg.t = "str" THEN Contains(msg.s, sub) ELSE sub \in DOMAIN msg.f

\* What check_payload returns, (status, payload_json, message), or the
\* exception that leaves it.
Checked(status, payload_json, message) ==
    [status |-> status, payload_json |-> payload_json, message |-> message,
     raised |-> ""]

CheckRaised(name) ==
    [status |-> "", payload_json |-> PyNone, message |-> "", raised |-> name]

\* A faulty variant of check_msg: the lookup of the pending order comes
\* before the test of the length.
check_msg_lookup_first(payload_json, payload_msg, device_id, po) ==
    IF ~HasLen(payload_msg) THEN CheckRaised("NameError")
    ELSE IF MsgContains(payload_msg, "37040")
    THEN Checked("ups_code", payload_json, "UPS code detected in msg")
    ELSE IF PyLen(payload_msg) = 13 /\ payload_msg.t # "str"
    THEN CheckRaised("NameError")
    ELSE IF PyLen(payload_msg) = 13 /\ StartsWith(payload_msg.s, "RC-")
    THEN IF RcParts(payload_msg.s)
         THEN Checked("valid_rc_format", payload_json,
                      "Valid RC-xxx-xxxxxx format in msg")
         ELSE Checked("incorrect_format", PyNone,
                      "Invalid RC-xxx-xxxxxx format in msg: incorrect parts")
    ELSE IF /\ MsgContains(payload_msg, "FBA")
            /\ MsgContains(payload_msg, "Coventry, West Midlands")
            /\ MsgContains(payload_msg, "Lyons Park")
    THEN Checked("fedex_warehouse", payload_json, "FedEx warehouse order")
    ELSE IF Truthy(device_id) /\ ~Hashable(device_id)
    THEN CheckRaised("NameError")
    ELSE IF Truthy(device_id) /\ DictKey(device_id) \in DOMAIN po
    THEN Checked("tracking_code", payload_json,
                 "Potential tracking code for pending order")
    ELSE IF PyLen(payload_msg) > 50
    THEN Checked("non_fedex_warehouse", payload_json, "Non-FedEx warehouse order")
    ELSE Checked("incorrect_format", PyNone,
                 "Incorrect format: msg too short or invalid")

\* The inner part of check_payload for a parsed JSON object with the members
\* payload_msg = payload_json.get('msg', '') and device_id =
\* payload_json.get('id', ''): any exception in it reaches the function's
\* "except Exception", whose logging call names the module traceback, which
\* is not imported: a NameError leaves check_payload.
check_msg(payload_json, payload_msg, device_id, po) ==
    IF ~HasLen(payload_msg) THEN CheckRaised("NameError")
    ELSE IF MsgContains(payload_msg, "37040")
    THEN Checked("ups_code", payload_json, "UPS code detected in msg")
    ELSE IF PyLen(payload_msg) = 13 /\ payload_msg.t # "str"
    THEN CheckRaised("NameError")
    ELSE IF PyLen(payload_msg) = 13 /\ StartsWith(payload_msg.s, "RC-")
    THEN IF RcParts(payload_msg.s)
         THEN Checked("valid_rc_format", payload_json,
                      "Valid RC-xxx-xxxxxx format in msg")
         ELSE Checked("incorrect_format", PyNone,
                      "Invalid RC-xxx-xxxxxx format in msg: incorrect parts")
    ELSE IF /\ MsgContains(payload_msg, "FBA")
            /\ MsgContains(payload_msg, "Coventry, West Midlands")
            /\ MsgContains(payload_msg, "Lyons Park")
    THEN Checked("fedex_warehouse", payload_json, "FedEx warehouse order")
    ELSE IF PyLen(payload_msg) > 50
    THEN Checked("non_fedex_warehouse", payload_json, "Non-FedEx warehouse order")
    ELSE IF Truthy(device_id) /\ ~Hashable(device_id)
    THEN CheckRaised("NameError")
    ELSE IF Truthy(device_id) /\ DictKey(device_id) \in DOMAIN po
    THEN Checked("tracking_code", payload_json,
                 "Potential tracking code for pending order")
    ELSE Checked("incorrect_format", PyNone,
                 "Incorrect format: msg too short or invalid")

\* A faulty variant of check_cleaned: the test for a UPS code looks at msg
\* only, after the payload was parsed.
check_parsed_only(cleaned_payload, parsed, po) ==
    IF ~parsed.ok
    THEN Checked("incorrect_format", PyNone, "Incorrect JSON format")
    ELSE IF parsed.val.t # "dict"
    THEN Checked("incorrect_format", PyNone, "Invalid JSON format: expected dict")
    ELSE check_msg(parsed.val, DictGet(parsed.val, "msg", PyStr("")),
                   DictGet(parsed.val, "id", PyStr("")), po)

\* A faulty variant of check_cleaned: both shape checks fail with the same
\* status, incorrect_format.
check_cleaned_one_status(cleaned_payload, parsed, po) ==
    IF Contains(cleaned_payload, "37040")
    THEN IF parsed.ok
         THEN Checked("ups_code", parsed.val, "UPS code detected")
         ELSE Checked("ups_code", PyNone, "UPS code detected: " \o cleaned_payload)
    ELSE IF Len(cleaned_payload) = 39 /\ StartsWith(cleaned_payload, "RC-")
    THEN IF RcParts(cleaned_payload)
         THEN IF parsed.ok
              THEN Checked("valid_rc_format", parsed.val, "Valid RC-xxx-xxxxxx format")
              ELSE Checked("valid_rc_format", PyNone,
                           "Valid RC-xxx-xxxxxx format but not JSON: " \o cleaned_payload)
         ELSE Checked("incorrect_format", PyNone,
                      "Invalid RC-xxx-xxxxxx format: incorrect parts")
    ELSE IF ~parsed.ok
    THEN Checked("incorrect_format", PyNone, "Incorrect JSON format")
    ELSE IF parsed.val.t # "dict"
    THEN Checked("incorrect_format", PyNone, "Invalid JSON format: expected dict")
    ELSE check_msg(parsed.val, DictGet(parsed.val, "msg", PyStr("")),
                   DictGet(parsed.val, "id", PyStr("")), po)

\* check_payload from the UPS test on: cleaned_payload is the payload without
\* its control characters, parsed is json.loads(cleaned_payload).
check_cleaned(cleaned_payload, parsed, po) ==
    IF Contains(cleaned_payload, "37040")
    THEN IF parsed.ok
         THEN Checked("ups_code", parsed.val, "UPS code detected")
         ELSE Checked("ups_code", PyNone, "UPS code detected: " \o cleaned_payload)
    ELSE IF Len(cleaned_payload) = 39 /\ StartsWith(cleaned_payload, "RC-")
    THEN IF RcParts(cleaned_payload)
         THEN IF parsed.ok
              THEN Checked("valid_rc_format", parsed.val, "Valid RC-xxx-xxxxxx format")
              ELSE Checked("valid_rc_format", PyNone,
                           "Valid RC-xxx-xxxxxx format but not JSON: " \o cleaned_payload)
         ELSE Checked("invalid_rc_format", PyNone,
                      "Invalid RC-xxx-xxxxxx format: incorrect parts")
    ELSE IF ~parsed.ok
    THEN Checked("incorrect_format", PyNone, "Incorrect JSON format")
    ELSE IF parsed.val.t # "dict"
    THEN Checked("incorrect_format", PyNone, "Invalid JSON format: expected dict")
    ELSE check_msg(parsed.val, DictGet(parsed.val, "msg", PyStr("")),
                   DictGet(parsed.val, "id", PyStr("")), po)

check_stripped(cleaned_payload, po) ==
    check_cleaned(cleaned_payload, Loads(cleaned_payload), po)

\* check_payload(payload_str) with the registry po
check_payload(payload_str, po) ==
    IF payload_str.t # "str"
    THEN Checked("incorrect_format", PyNone, "Invalid payload type: expected str")
    ELSE IF payload_str.s = ""
    THEN Checked("incorrect_format", PyNone, "Empty payload")
    ELSE check_stripped(Cleaned(payload_str.s), po)

(***************************************************************************)
(* handle_device_scan                                                      *)
(*                                                                         *)
(* One run of the handler is a frame: the request, the handler's position  *)
(* pc, its local variables and, at pc = "done", its response.  HandlerStep *)
(* takes the frame from one access of the shared registry to the next.     *)
(***************************************************************************)
ALLOWED_TOPICS == {"production/ready", "sale/ready"}

BARCODE_PREFIX == "RC-"

MIN_BARCODE_LENGTH == 10

\* data.get('payload', '{}') for a request body without a payload
PyMissing == [t |-> "missing", s |-> "", f |-> NoMembers]

PayloadOf(data) ==
    IF data.payload.t = "missing" THEN PyStr("{}") ELSE data.payload

NoResponse ==
    [code |-> 0, status |-> "", error |-> "", message |-> "", details |-> "",
     device_id |-> PyNone, barcode |-> "", topic |-> "", operation |-> "",
     timeout_seconds |-> 0]

\* jsonify(fields), code: the fields not given are absent
Response(code, fields) ==
    [k \in DOMAIN NoResponse |->
        IF k = "code" THEN code
        ELSE IF k \in DOMAIN fields THEN fields[k]
        ELSE NoResponse[k]]

NoOrderInfo == [type |-> "", timestamp |-> 0, order_data |-> PyNone]

\* The frame of a request that has just arrived. db_ok is the result the
\* database layer will give if the handler writes.
NewFrame(data, db_ok) ==
    [pc |-> "auth", data |-> data, db_ok |-> db_ok,
     status |-> "", payload_json |-> PyNone, message |-> "",
     device_id |-> PyNone, expired_devices |-> {},
     calls |-> <<>>, ran |-> {}, saved |-> NoSave, response |-> NoResponse]

IdleFrame == [NewFrame([topic |-> "", payload |-> PyMissing], FALSE)
                 EXCEPT !.pc = "idle"]

\* A faulty variant of topic_allowed: an authorization check that knows
\* exact matches only.
TopicExact(topic) == topic \in ALLOWED_TOPICS

\* The loop over allowed_topics
topic_allowed(topic) ==
    \E allowed_topic \in ALLOWED_TOPICS :
        topic = allowed_topic \/ StartsWith(topic, allowed_topic)

Finish(fr, response) == [fr EXCEPT !.pc = "done", !.response = response]

\* A faulty variant of Fault: a handler without "except Exception", which
\* ends without a response when anything but a JSONDecodeError is raised.
FaultEscapes(fr, raised) ==
    IF raised = "JSONDecodeError"
    THEN Finish(fr, Response(400, [error |-> "Invalid JSON payload"]))
    ELSE [fr EXCEPT !.pc = "done"]

\* except json.JSONDecodeError / except Exception at the end of the handler
Fault(fr, raised) ==
    IF raised = "JSONDecodeError"
    THEN Finish(fr, Response(400, [error |-> "Invalid JSON payload"]))
    ELSE Finish(fr, Response(500, [error |-> "Server error", details |-> raised]))

\* device_id = payload_json.get('id', '') if payload_json else ''
\* (PyOther stands for the AttributeError of a value without .get)
DeviceIdOf(payload_json) ==
    IF ~Truthy(payload_json) THEN PyStr("")
    ELSE IF payload_json.t # "dict" THEN PyOther
    ELSE DictGet(payload_json, "id", PyStr(""))

\* The response to the outcome of process_tracking_code
TrackingResponse(fr, res) ==
    IF res.raised # "" THEN Fault(fr, res.raised)
    ELSE Finish([fr EXCEPT !.saved = res.saved],
                Response(IF res.success THEN 200 ELSE 400,
                         [status |-> IF res.success THEN "success" ELSE "error",
                          message |-> res.message,
                          device_id |-> fr.device_id]))

PendingResponse(fr, message) ==
    Finish(fr, Response(200, [status |-> "pending", message |-> message,
                              device_id |-> fr.device_id,
                              timeout_seconds |-> cleanup_timeout]))

\* The write of the branch and its response: fn is the manager's method.
RecordWrite(fr, fn, operation, message, barcode) ==
    IF fr.db_ok
    THEN Finish([fr EXCEPT !.calls = Append(@, [fn |-> fn, serial |-> barcode])],
                Response(200, [status |-> "success", barcode |-> barcode,
                               topic |-> fr.data.topic, operation |-> operation,
                               message |-> message]))
    ELSE Finish([fr EXCEPT !.calls = Append(@, [fn |-> fn, serial |-> barcode])],
                Response(500, [error |-> "Failed to record " \o operation \o " date"]))

\* case "valid_rc_format" from the barcode on
ValidRcBarcode(fr, barcode) ==
    IF barcode = ""
    THEN Finish(fr, Response(400, [error |-> "Barcode is required"]))
    ELSE IF ~StartsWith(barcode, BARCODE_PREFIX) \/ Len(barcode) < MIN_BARCODE_LENGTH
    THEN Finish(fr, Response(400,
             [error |-> "Invalid barcode format. Expected format: "
                            \o "RC-XXXXXXXXX (min 10 chars)"]))
    ELSE IF fr.data.topic = "production/ready"
    THEN RecordWrite(fr, "WriteManufacturingDate", "manufacturing",
                     "Manufacturing date recorded successfully", barcode)
    ELSE IF fr.data.topic = "sale/ready"
    THEN RecordWrite(fr, "WriteSaleDate", "sale",
                     "Sale date recorded successfully", barcode)
    ELSE Finish(fr, Response(500, [error |-> "Unknown topic"]))

\* case "valid_rc_format" after payload_json = json.loads(payload_str)
ValidRcParsed(fr, reparsed) ==
    IF ~reparsed.ok THEN Fault(fr, "JSONDecodeError")
    ELSE IF reparsed.val.t # "dict" THEN Fault(fr, "AttributeError")
    ELSE IF DictGet(reparsed.val, "msg", PyStr("")).t # "str"
    THEN Fault(fr, "AttributeError")
    ELSE ValidRcBarcode(fr, Strip(DictGet(reparsed.val, "msg", PyStr("")).s))

\* case "valid_rc_format": the payload as received is parsed again; the
\* branch does not touch the registry.
ValidRcBranch(fr) == ValidRcParsed(fr, Loads(PayloadOf(fr.data).s))

Stepped(fr, po) == [fr |-> fr, po |-> po]

Ran(fr, stage) == [fr EXCEPT !.ran = @ \cup {stage}]

\* A faulty variant of AuthStep: a missing authorization check, every topic
\* goes on to the sweep.
AuthStepOpen(fr, po) == Stepped([fr EXCEPT !.pc = "cleanup_scan"], po)

\* The topic check: a topic that is not allowed is answered at once.
AuthStep(fr, po) ==
    IF topic_allowed(fr.data.topic)
    THEN Stepped([fr EXCEPT !.pc = "cleanup_scan"], po)
    ELSE Stepped(Finish(fr, Response(403, [error |-> "Unauthorized topic",
                                           topic |-> fr.data.topic])), po)

\* cleanup_expired, first half: the list expired_devices
CleanupScanStep(fr, po, t) ==
    Stepped([Ran(fr, "cleanup_expired") EXCEPT
                 !.pc = "cleanup_del",
                 !.expired_devices = ExpiredDevices(po, t)], po)

\* cleanup_expired, second half: one del per step
CleanupDelStep(fr, po) ==
    IF fr.expired_devices = {}
    THEN Stepped([fr EXCEPT !.pc = "classify"], po)
    ELSE LET device_id == CHOOSE d \in fr.expired_devices : TRUE IN
         IF device_id \notin DOMAIN po
         THEN Stepped(Fault(fr, "KeyError"), po)
         ELSE Stepped([fr EXCEPT !.expired_devices = @ \ {device_id}],
                      Remove(po, device_id))

\* The handler after check_payload gave res
Classified(fr, res) ==
    IF res.raised # ""
    THEN Fault(fr, res.raised)
    ELSE [fr EXCEPT !.pc = "dispatch", !.status = res.status,
                    !.payload_json = res.payload_json, !.message = res.message]

\* A faulty variant of ClassifyStep: a classifier whose lookup of the
\* payload's id takes the entry out of the registry.
ClassifyStepPops(fr, po) ==
    CHOOSE next \in {Stepped(Classified(Ran(fr, "check_payload"), res),
                             IF res.raised = "" /\ res.status = "tracking_code"
                             THEN Remove(po, DictKey(DictGet(res.payload_json, "id", PyStr(""))))
                             ELSE po) :
                        res \in {check_payload(PayloadOf(fr.data), po)}} : TRUE

\* status, payload_json, message = check_payload(payload_str)
ClassifyStep(fr, po) ==
    CHOOSE next \in {Stepped(Classified(Ran(fr, "check_payload"), res), po) :
                        res \in {check_payload(PayloadOf(fr.data), po)}} : TRUE

\* A faulty variant of WarehouseRegister: an order for a device that has a
\* pending order is acknowledged and not registered.
WarehouseRegisterOnce(fr, po, t, message) ==
    IF fr.device_id = PyOther THEN Stepped(Fault(fr, "AttributeError"), po)
    ELSE IF ~Hashable(fr.device_id) THEN Stepped(Fault(fr, "TypeError"), po)
    ELSE IF DictKey(fr.device_id) \in DOMAIN po
    THEN Stepped(PendingResponse(fr, message), po)
    ELSE Stepped(PendingResponse(Ran(fr, "register_order"), message),
                 register_order(po, DictKey(fr.device_id), fr.status,
                                fr.payload_json, t))

\* case "fedex_warehouse" / "non_fedex_warehouse" with the device id read
\* from the payload: always registers
WarehouseRegister(fr, po, t, message) ==
    IF fr.device_id = PyOther THEN Stepped(Fault(fr, "AttributeError"), po)
    ELSE IF ~Hashable(fr.device_id) THEN Stepped(Fault(fr, "TypeError"), po)
    ELSE Stepped(PendingResponse(Ran(fr, "register_order"), message),
                 register_order(po, DictKey(fr.device_id), fr.status,
                                fr.payload_json, t))

WarehouseBranch(fr, po, t, message) ==
    WarehouseRegister([fr EXCEPT !.device_id = DeviceIdOf(fr.payload_json)],
                      po, t, message)

\* The else of case "ups_code": the registration follows in a later step.
ToRegisterUps(fr) == [fr EXCEPT !.pc = "register_ups"]

\* The else of case "tracking_code"
NoPendingFound(fr) ==
    Finish(fr, Response(400, [status |-> "error",
                              message |-> "No pending order found for tracking code",
                              device_id |-> fr.device_id]))

\* The end of case "incorrect_format"
InvalidPayload(fr) ==
    Finish(fr, Response(400, [error |-> "Invalid payload format",
                              details |-> fr.message]))

\* What a branch does when it finds no pending order for the device id.
AbsentFrame(fr) ==
    CASE fr.status = "ups_code" -> ToRegisterUps(fr)
      [] fr.status = "tracking_code" -> NoPendingFound(fr)
      [] OTHER -> InvalidPayload(fr)

\* The branch's own test "device_id in tracking_manager.pending_orders"
\* ("device_id and device_id in ..." outside case "ups_code"); the action
\* follows in a later step.
Lookup(fr, po) ==
    IF fr.device_id = PyOther THEN Stepped(Fault(fr, "AttributeError"), po)
    ELSE IF fr.status # "ups_code" /\ ~Truthy(fr.device_id)
    THEN Stepped(AbsentFrame(fr), po)
    ELSE IF ~Hashable(fr.device_id) THEN Stepped(Fault(fr, "TypeError"), po)
    ELSE IF DictKey(fr.device_id) \in DOMAIN po
    THEN Stepped([fr EXCEPT !.pc = "ptc_check"], po)
    ELSE Stepped(AbsentFrame(fr), po)

LookupBranch(fr, po) ==
    Lookup([fr EXCEPT !.device_id = DeviceIdOf(fr.payload_json)], po)

\* match status
DispatchStep(fr, po, t) ==
    CASE fr.status = "valid_rc_format" -> Stepped(ValidRcBranch(fr), po)
      [] fr.status = "fedex_warehouse" ->
            WarehouseBranch(fr, po, t,
                "FedEx warehouse order registered, waiting for tracking code")
      [] fr.status = "non_fedex_warehouse" ->
            WarehouseBranch(fr, po, t,
                "Non-FedEx warehouse order registered, waiting for tracking code")
      [] fr.status = "ups_code" -> LookupBranch(fr, po)
      [] fr.status = "tracking_code" -> LookupBranch(fr, po)
      [] fr.status = "incorrect_format" ->
            IF Truthy(fr.payload_json) /\ fr.payload_json.t = "dict"
            THEN LookupBranch(fr, po)
            ELSE Stepped(InvalidPayload(fr), po)
      [] fr.status = "invalid_rc_format" ->
            Stepped(Finish(fr, Response(400, [error |-> "Invalid RC-xxx-xxxxxx format",
                                              details |-> fr.message])), po)
      [] OTHER ->
            Stepped(Finish(fr, Response(400, [error |-> "Unknown payload status",
                                              details |-> fr.message])), po)

\* The else of case "ups_code": the first message with a UPS code registers.
RegisterUpsStep(fr, po, t) ==
    Stepped(PendingResponse(Ran(fr, "register_order"),
                            "UPS code registered, waiting for additional data"),
            register_order(po, DictKey(fr.device_id), "ups_code", fr.payload_json, t))

\* process_tracking_code, its test "device_id not in self.pending_orders"
PtcCheckStep(fr, po) ==
    IF DictKey(fr.device_id) \in DOMAIN po
    THEN Stepped([Ran(fr, "process_tracking_code") EXCEPT !.pc = "ptc_pop"], po)
    ELSE Stepped(TrackingResponse(Ran(fr, "process_tracking_code"),
             PtcResult(po, FALSE, "No pending order for this device", NoSave, "")), po)

Popped(fr, res) == Stepped(TrackingResponse(fr, res), res.po)

\* process_tracking_code from its pop to its return, and the response
PtcPopStep(fr, po, t) ==
    Popped(fr, pop_and_resolve(po, DictKey(fr.device_id), fr.payload_json, t))

\* One step of the handler at the time t.
HandlerStep(fr, po, t) ==
    CASE fr.pc = "auth" -> AuthStep(fr, po)
      [] fr.pc = "cleanup_scan" -> CleanupScanStep(fr, po, t)
      [] fr.pc = "cleanup_del" -> CleanupDelStep(fr, po)
      [] fr.pc = "classify" -> ClassifyStep(fr, po)
      [] fr.pc = "dispatch" -> DispatchStep(fr, po, t)
      [] fr.pc = "register_ups" -> RegisterUpsStep(fr, po, t)
      [] fr.pc = "ptc_check" -> PtcCheckStep(fr, po)
      [] fr.pc = "ptc_pop" -> PtcPopStep(fr, po, t)
      [] OTHER -> Stepped(fr, po)

\* The whole handler, run at the time t with no other request in between.
RECURSIVE handle_device_scan(_, _, _)
handle_device_scan(fr, po, t) ==
    IF fr.pc \in {"done", "idle"} THEN Stepped(fr, po)
    ELSE CHOOSE res \in {handle_device_scan(next.fr, next.po, t) :
                             next \in {HandlerStep(fr, po, t)}} : TRUE

(***************************************************************************)
(* The state and the requests                                              *)
(***************************************************************************)
VARIABLES
    pending_orders,   \* tracking_manager.pending_orders
    now,              \* datetime.now(), in ticks
    advances,         \* how often the clock has been advanced
    frame,            \* the server handling one request at a time: its last request
    threads,          \* the server handling requests on threads: a frame per thread
    arrival,          \*     and the registry and the time when they arrived
    call,             \* the registry on its own: the method called last since
    ret               \*     the clock advanced, and what it returned

vars == <<pending_orders, now, advances, frame, threads, arrival, call, ret>>

\* How often the clock is advanced in a run.
MaxAdvances == 2

\* The clock advances by a fraction of a second, by the timeout or by a day.
AdvanceSteps ==
    {1, cleanup_timeout * TicksPerSecond, SecondsPerDay * TicksPerSecond}

Topics ==
    {"production/ready", "sale/ready", "production/ready/line2",
     "random/topic", "sale", ""}

\* The payloads of the requests: scans and orders of the devices s1 and d1.
Payloads ==
    { PyStr(RcScan), PyStr(RcScanUpsDigits), PyStr(UpsCode), PyStr(FedexOrder),
      PyStr(TrackingCode), PyStr(NotJson) }

\* Every payload on one allowed topic, and every topic with a scan and an order.
Requests ==
    [topic : {"production/ready"}, payload : Payloads]
        \cup [topic : Topics, payload : {PyStr(RcScan), PyStr(UpsCode)}]

\* found: whether the registry held an entry for device_id at the call
NoCall ==
    [fn |-> "", device_id |-> PyNone, order_type |-> "", data |-> PyNone,
     found |-> FALSE]

NoArrival == [po |-> NoOrders, t |-> 0]

NoRet == [success |-> FALSE, message |-> "", saved |-> NoSave, raised |-> ""]

Threads == {1, 2}

Init ==
    /\ pending_orders = NoOrders
    /\ now = 0
    /\ advances = 0
    /\ frame = IdleFrame
    /\ threads = [th \in Threads |-> IdleFrame]
    /\ arrival = NoArrival
    /\ call = NoCall
    /\ ret = NoRet

\* Time passes between two requests.
Advance(step) ==
    /\ advances < MaxAdvances
    /\ now' = now + step
    /\ advances' = advances + 1
    /\ frame' = IdleFrame
    /\ UNCHANGED <<pending_orders, threads, arrival, call, ret>>

\* The server after a request handled from start to end with the result res
Handled(res) ==
    /\ frame' = res.fr
    /\ pending_orders' = res.po

\* POST /webhook/device with the body data, handled with no other request
\* and no tick of the clock in between.
HandleDeviceScan(data, db_ok) ==
    /\ \E res \in {handle_device_scan(NewFrame(data, db_ok), pending_orders, now)} :
           Handled(res)
    /\ UNCHANGED <<now, advances, threads, arrival, call, ret>>

Next ==
    \/ \E data \in Requests, db_ok \in BOOLEAN : HandleDeviceScan(data, db_ok)
    \/ \E step \in AdvanceSteps : Advance(step)

Spec == Init /\ [][Next]_vars

(***************************************************************************)
(* The registry on its own: the methods of OrderTrackingManager called one *)
(* at a time, with the clock advancing between the calls                   *)
(***************************************************************************)
Devices == {PyStr("d1"), PyStr("s1")}

\* 'return' stands for a type that process_tracking_code does not know.
OrderTypes == {"ups_code", "fedex_warehouse", "return"}

OrderData == {Loads(UpsCode).val, Loads(FedexOrder).val}

\* The follow-ups: a tracking code, and None (a payload that was not JSON).
FollowUps == {Loads(TrackingCode).val, PyNone}

\* tracking_manager.register_order(device_id, order_type, order_data)
RegisterOrder(device_id, order_type, order_data) ==
    /\ pending_orders' =
           register_order(pending_orders, device_id, order_type, order_data, now)
    /\ call' = [fn |-> "register_order", device_id |-> device_id,
                order_type |-> order_type, data |-> order_data,
                found |-> device_id \in DOMAIN pending_orders]
    /\ ret' = NoRet
    /\ UNCHANGED <<now, advances, frame, threads, arrival>>

\* The registry and the caller after process_tracking_code gave res
Returned(res) ==
    /\ pending_orders' = res.po
    /\ ret' = [success |-> res.success, message |-> res.message,
               saved |-> res.saved, raised |-> res.raised]

\* tracking_manager.process_tracking_code(device_id, tracking_data)
ProcessTrackingCode(device_id, tracking_data) ==
    /\ Returned(process_tracking_code(pending_orders, device_id, tracking_data, now))
    /\ call' = [fn |-> "process_tracking_code", device_id |-> device_id,
                order_type |-> "", data |-> tracking_data,
                found |-> device_id \in DOMAIN pending_orders]
    /\ UNCHANGED <<now, advances, frame, threads, arrival>>

\* tracking_manager.cleanup_expired()
CleanupExpired ==
    /\ pending_orders' = cleanup_expired(pending_orders, now)
    /\ call' = [NoCall EXCEPT !.fn = "cleanup_expired"]
    /\ ret' = NoRet
    /\ UNCHANGED <<now, advances, frame, threads, arrival>>

\* Time passes between two calls.
StoreAdvance(step) ==
    /\ advances < MaxAdvances
    /\ now' = now + step
    /\ advances' = advances + 1
    /\ call' = NoCall
    /\ ret' = NoRet
    /\ UNCHANGED <<pending_orders, frame, threads, arrival>>

NextStore ==
    \/ \E device_id \in Devices, order_type \in OrderTypes, order_data \in OrderData :
           RegisterOrder(device_id, order_type, order_data)
    \/ \E device_id \in Devices, tracking_data \in FollowUps :
           ProcessTrackingCode(device_id, tracking_data)
    \/ CleanupExpired
    \/ \E step \in AdvanceSteps : StoreAdvance(step)

SpecStore == Init /\ [][NextStore]_vars

(***************************************************************************)
(* The server handling two requests at once: Flask runs each request on a  *)
(* thread of its own, the threads share tracking_manager, and a thread may *)
(* be suspended between any two operations on the registry                 *)
(***************************************************************************)
\* The clock advances by a second or by the timeout: ages of whole seconds.
ConcSteps == {TicksPerSecond, cleanup_timeout * TicksPerSecond}

\* Requests of the device d1 on an allowed topic
ConcRequests ==
    [topic : {"production/ready"},
     payload : {PyStr(UpsCode), PyStr(FedexOrder), PyStr(TrackingCode)}]

Finished(fr) == fr.pc \in {"idle", "done"}

\* Two requests arrive while no request is being handled.
Arrive(data1, data2) ==
    /\ \A th \in Threads : Finished(threads[th])
    /\ threads' = [th \in Threads |->
                      NewFrame(IF th = 1 THEN data1 ELSE data2, TRUE)]
    /\ arrival' = [po |-> pending_orders, t |-> now]
    /\ UNCHANGED <<pending_orders, now, advances, frame, call, ret>>

\* The thread th and the registry after a step with the result res
Resumed(th, res) ==
    /\ threads' = [threads EXCEPT ![th] = res.fr]
    /\ pending_orders' = res.po

\* The thread th runs up to its next operation on the registry.
ThreadStep(th) ==
    /\ ~Finished(threads[th])
    /\ Resumed(th, HandlerStep(threads[th], pending_orders, now))
    /\ UNCHANGED <<now, advances, frame, arrival, call, ret>>

\* Time passes, also while requests are being handled.
ConcAdvance(step) ==
    /\ advances < MaxAdvances
    /\ now' = now + step
    /\ advances' = advances + 1
    /\ UNCHANGED <<pending_orders, frame, threads, arrival, call, ret>>

NextConc ==
    \/ \E data1, data2 \in ConcRequests : Arrive(data1, data2)
    \/ \E th \in Threads : ThreadStep(th)
    \/ \E step \in ConcSteps : ConcAdvance(step)

SpecConc == Init /\ [][NextConc]_vars

(***************************************************************************)
(* The server under continued traffic: time keeps advancing and authorized *)
(* requests keep arriving.  The code reads the clock only in               *)
(* (now - timestamp).seconds, which is the same for two clocks that differ *)
(* by whole days, so the clock of this specification counts ticks within   *)
(* LiveDays days and starts again                                          *)
(***************************************************************************)
LiveDays == 2

LiveStepsPerDay == 2

DayTicks == SecondsPerDay * TicksPerSecond

\* The clock advances by a part of a day or by a day.
LiveSteps == {DayTicks \div LiveStepsPerDay, DayTicks}

LiveAuthorized ==
    [topic : {"production/ready"},
     payload : {PyStr(RcScan), PyStr(UpsCode), PyStr(FedexOrder), PyStr(TrackingCode)}]

LiveRequests ==
    LiveAuthorized \cup [topic : {"random/topic"}, payload : {PyStr(UpsCode)}]

\* Time passes between two requests.
LiveTick(step) ==
    /\ now' = (now + step) % (LiveDays * DayTicks)
    /\ frame' = IdleFrame
    /\ UNCHANGED <<pending_orders, advances, threads, arrival, call, ret>>

AuthorizedRequest ==
    \E data \in LiveAuthorized, db_ok \in BOOLEAN : HandleDeviceScan(data, db_ok)

TimePasses == \E step \in LiveSteps : LiveTick(step)

NextLive ==
    \/ \E data \in LiveRequests, db_ok \in BOOLEAN : HandleDeviceScan(data, db_ok)
    \/ \E step \in LiveSteps : LiveTick(step)

SpecLive ==
    /\ Init
    /\ [][NextLive]_vars
    /\ WF_vars(TimePasses)
    /\ WF_vars(AuthorizedRequest)

(***************************************************************************)
(* Properties of the webhook, one request at a time (Spec)                 *)
(***************************************************************************)
\* The last step was a request, handled to its response.
Answered == frame.pc = "done"

\* C1: a request whose topic fails authorization is answered with 403 and
\* nothing else happens: the registry after the request is the registry
\* before it, the handler has run neither the sweep nor the classification
\* nor a register or resolve step, no write of a manufacturing or sale date
\* was made and nothing was saved.
C1_UnauthorizedNoEffect ==
    [][(frame'.pc = "done" /\ ~topic_allowed(frame'.data.topic)) =>
          /\ frame'.response.code = 403
          /\ pending_orders' = pending_orders
          /\ frame'.ran = {}
          /\ frame'.calls = <<>>
          /\ frame'.saved = NoSave]_vars

\* An order on a topic that is not allowed was rejected while the registry
\* held an order.
C1_Witness ==
    /\ Answered
    /\ frame.data = [topic |-> "random/topic", payload |-> PyStr(UpsCode)]
    /\ frame.response.code = 403
    /\ pending_orders # NoOrders

\* msg of a payload that is a JSON object, None otherwise
MsgOf(payload) ==
    IF payload.t = "str" /\ Loads(payload.s).ok /\ Loads(payload.s).val.t = "dict"
    THEN DictGet(Loads(payload.s).val, "msg", PyNone)
    ELSE PyNone

\* A serial of the form RC-ddd-dddddd
IsSerial(v) ==
    /\ v.t = "str"
    /\ Len(v.s) = 13
    /\ SubSeq(v.s, 1, 3) = "RC-"
    /\ CharAt(v.s, 7) = "-"
    /\ \A i \in {4, 5, 6} \cup (8 .. 13) : CharAt(v.s, i) \in Digits

WriteOf(topic) ==
    IF topic = "production/ready" THEN "WriteManufacturingDate" ELSE "WriteSaleDate"

OperationOf(topic) ==
    IF topic = "production/ready" THEN "manufacturing" ELSE "sale"

\* C2: after a request on production/ready (sale/ready) whose payload is a
\* JSON object with a serial RC-ddd-dddddd as msg, the writes made are
\* exactly one WriteManufacturingDate (WriteSaleDate) with that serial, and
\* the response to a write that succeeded echoes the operation.
C2_SerialWrittenOnce ==
    (/\ Answered
     /\ frame.data.topic \in {"production/ready", "sale/ready"}
     /\ IsSerial(MsgOf(frame.data.payload)))
    => /\ frame.calls = << [fn |-> WriteOf(frame.data.topic),
                            serial |-> MsgOf(frame.data.payload).s] >>
       /\ frame.db_ok => frame.response.operation = OperationOf(frame.data.topic)

\* A topic that equals an allowed topic or starts with one
StartsWithAllowed(topic) ==
    \E allowed_topic \in ALLOWED_TOPICS : StartsWith(topic, allowed_topic)

\* A topic that equals an allowed topic or is the beginning of one
PrefixOfAllowed(topic) ==
    \E allowed_topic \in ALLOWED_TOPICS : StartsWith(allowed_topic, topic)

\* C3, as the code has it: a topic is accepted exactly when it equals an
\* allowed topic or starts with one (the allowed topic is a prefix of it);
\* every other topic is answered with 403 "Unauthorized topic" and the topic.
C3_AcceptsTopicsUnderAllowed ==
    Answered =>
       /\ frame.response.code # 403 <=> StartsWithAllowed(frame.data.topic)
       /\ frame.response.code = 403 =>
             /\ frame.response.error = "Unauthorized topic"
             /\ frame.response.topic = frame.data.topic

\* A topic below an allowed topic was accepted and the request went on to
\* the sweep and the classification.
C3_Witness ==
    /\ Answered
    /\ frame.data.topic = "production/ready/line2"
    /\ frame.response.code = 200
    /\ {"cleanup_expired", "check_payload"} \subseteq frame.ran

\* C3 as stated: a topic is accepted exactly when it equals an allowed topic
\* or is a prefix of one.
C3_AcceptsPrefixesOfAllowed ==
    Answered => (frame.response.code # 403 <=> PrefixOfAllowed(frame.data.topic))

(***************************************************************************)
(* Properties of the registry on its own (SpecStore)                       *)
(***************************************************************************)
TimeoutTicks == cleanup_timeout * TicksPerSecond

\* The age of an entry at the time t, in ticks
Age(order_info, t) == t - order_info.timestamp

KnownTypes == {"ups_code", "fedex_warehouse", "non_fedex_warehouse"}

\* C4: process_tracking_code(d, x) leaves the registry without an entry for
\* d, whatever it found and whatever the outcome; it fails with 'No pending
\* order for this device' when there is no entry for d; it succeeds on an
\* entry of a known type registered at this instant when x is a JSON object;
\* and only register_order(d, ...) brings an entry for d back.
C4_PopOnce ==
    [][/\ \A d \in Devices, x \in FollowUps :
             ProcessTrackingCode(d, x) =>
                /\ d \notin DOMAIN pending_orders'
                /\ d \notin DOMAIN pending_orders =>
                      /\ ~ret'.success
                      /\ ret'.message = "No pending order for this device"
                /\ (/\ d \in DOMAIN pending_orders
                    /\ pending_orders[d].timestamp = now
                    /\ pending_orders[d].type \in KnownTypes
                    /\ x.t = "dict") => ret'.success
       /\ \A d \in Devices :
             (d \notin DOMAIN pending_orders /\ d \in DOMAIN pending_orders') =>
                (call'.fn = "register_order" /\ call'.device_id = d)]_vars

\* A follow-up found the entry of its device and succeeded; the entry is
\* gone and the order of the other device is still pending.
C4_Witness ==
    /\ call.fn = "process_tracking_code"
    /\ call.found
    /\ ret.success
    /\ call.device_id \notin DOMAIN pending_orders
    /\ pending_orders # NoOrders

\* C5: process_tracking_code with a JSON object as follow-up, on an entry
\* older than the timeout (by however much or little), fails with
\* 'Tracking code timeout' and the entry is gone; on an entry that is not
\* older than the timeout it reports no timeout.
C5_TimeoutAtEveryAge ==
    [][\A d \in Devices, x \in FollowUps :
          (ProcessTrackingCode(d, x) /\ x.t = "dict" /\ d \in DOMAIN pending_orders) =>
             IF Age(pending_orders[d], now) > TimeoutTicks
             THEN /\ ~ret'.success
                  /\ ret'.message = "Tracking code timeout"
                  /\ d \notin DOMAIN pending_orders'
             ELSE ret'.message # "Tracking code timeout"]_vars

\* C6: after register_order(d, type, data) the registry holds for d exactly
\* the new entry, with the time of the call as its timestamp, so that its
\* timeout window starts again; the entries of the other devices are as
\* before, and nothing is saved.
C6_LastWriteWins ==
    [][\A d \in Devices, order_type \in OrderTypes, order_data \in OrderData :
          RegisterOrder(d, order_type, order_data) =>
             /\ DOMAIN pending_orders' = DOMAIN pending_orders \cup {d}
             /\ pending_orders'[d] = [type |-> order_type, timestamp |-> now,
                                      order_data |-> order_data]
             /\ ~Expired(pending_orders'[d], now)
             /\ \A e \in DOMAIN pending_orders \ {d} :
                   pending_orders'[e] = pending_orders[e]
             /\ ret'.saved = NoSave]_vars

\* A registration for a device that had an entry: the registry holds the
\* new entry, and an older entry of the other device.
C6_Witness ==
    /\ call.fn = "register_order"
    /\ call.found
    /\ pending_orders[call.device_id] =
           [type |-> call.order_type, timestamp |-> now, order_data |-> call.data]
    /\ now > 0
    /\ \E e \in DOMAIN pending_orders : pending_orders[e].timestamp < now

\* C7: cleanup_expired leaves exactly the entries that are not older than
\* the timeout, each as it was.
C7_SweepRemovesTheExpired ==
    [][CleanupExpired =>
          pending_orders' =
              [d \in {e \in DOMAIN pending_orders :
                         Age(pending_orders[e], now) <= TimeoutTicks}
                  |-> pending_orders[d]]]_vars

(***************************************************************************)
(* Properties under continued traffic (SpecLive) and of requests handled   *)
(* at once (SpecConc)                                                      *)
(***************************************************************************)
\* The last request registered an order for the device d.
Registered(d) ==
    /\ Answered
    /\ "register_order" \in frame.ran
    /\ DictKey(frame.device_id) = d

\* C8: while time keeps advancing and authorized requests keep arriving, an
\* order that is pending leaves the registry at some time, or a new
\* registration for its device takes its place.
C8_EveryOrderLeaves ==
    \A d \in Devices :
        [](d \in DOMAIN pending_orders =>
              <>(d \notin DOMAIN pending_orders \/ Registered(d)))

\* An entry of the registry that is older than the timeout
Aged(d) ==
    /\ d \in DOMAIN pending_orders
    /\ Age(pending_orders[d], now) > TimeoutTicks

\* C9: a lookup treats an entry older than the timeout as absent: the
\* classification of a message of its device does not give tracking_code,
\* and the ups_code branch goes on to register a new order.
C9_ExpiredIsAbsent ==
    [][\A th \in Threads :
          /\ (/\ threads[th].pc = "classify"
              /\ threads'[th].pc = "dispatch"
              /\ Aged(DictKey(DeviceIdOf(threads'[th].payload_json))))
             => threads'[th].status # "tracking_code"
          /\ (/\ threads[th].pc = "dispatch"
              /\ threads[th].status = "ups_code"
              /\ threads'[th].pc # "dispatch"
              /\ Aged(DictKey(DeviceIdOf(threads[th].payload_json))))
             => threads'[th].pc = "register_ups"]_vars

\* What two requests leave behind: the registry and the two responses
Outcome(po, response1, response2) ==
    [po |-> po, response1 |-> response1, response2 |-> response2]

\* The request of the thread th handled on its own on the registry po
Alone(th, po) ==
    handle_device_scan(NewFrame(threads[th].data, threads[th].db_ok), po, arrival.t)

FirstThenSecond(first, second) ==
    Outcome(second.po, first.fr.response, second.fr.response)

SecondThenFirst(second, first) ==
    Outcome(first.po, first.fr.response, second.fr.response)

\* The two requests handled one after the other, in the one and the other order
Serial12 == FirstThenSecond(Alone(1, arrival.po), Alone(2, Alone(1, arrival.po).po))

Serial21 == SecondThenFirst(Alone(2, arrival.po), Alone(1, Alone(2, arrival.po).po))

\* C10: two requests handled at once, with the clock standing still, leave
\* the registry and the responses of one of the two serial orders.
C10_AtomicDecision ==
    (/\ \A th \in Threads : threads[th].pc = "done"
     /\ now = arrival.t)
    => Outcome(pending_orders, threads[1].response, threads[2].response)
           \in {Serial12, Serial21}

(***************************************************************************)
(* The classifier on its own: check_payload called with one payload after  *)
(* the other, on every registry that register_order can build              *)
(***************************************************************************)
\* The values that data.get('payload', '{}') can give: strings, and values
\* of a JSON body that are not strings.
PayloadValues ==
    {PyStr(s) : s \in PayloadStrings} \cup {PyStr(""), PyNone, PyInt("5")}

\* check_payload(payload_str)
CheckPayload(payload_str) ==
    /\ ret' = check_payload(payload_str, pending_orders)
    /\ call' = [NoCall EXCEPT !.fn = "check_payload", !.data = payload_str]
    /\ UNCHANGED <<pending_orders, now, advances, frame, threads, arrival>>

\* The keys of the registry: the ids of the devices, and '' for the orders
\* of senders without id.
ClassifyDevices == Devices \cup {PyStr("")}

NextClassify ==
    \/ \E payload_str \in PayloadValues : CheckPayload(payload_str)
    \/ \E device_id \in ClassifyDevices, order_type \in {"ups_code", "fedex_warehouse"},
          order_data \in OrderData :
           RegisterOrder(device_id, order_type, order_data)

SpecClassify == Init /\ [][NextClassify]_vars

(***************************************************************************)
(* Properties of the classifier (SpecClassify)                             *)
(***************************************************************************)
\* check_payload was called with a string that is not empty.
ClassifiedText ==
    /\ call.fn = "check_payload"
    /\ call.data.t = "str"
    /\ call.data.s # ""

\* The payload of the call as a JSON value, None when it does not parse
ParsedCall ==
    IF json_loads(call.data.s).ok THEN json_loads(call.data.s).val ELSE PyNone

\* C11: a string that is not empty and contains 37040 once its control
\* characters are removed is classified ups_code, with the string parsed as
\* JSON as body, or None when it does not parse; a JSON object whose msg
\* contains 37040 is classified ups_code.
C11_UpsCodeWins ==
    /\ (ClassifiedText /\ Contains(clean_control_characters(call.data.s), "37040"))
       => /\ ret.raised = ""
          /\ ret.status = "ups_code"
          /\ ret.payload_json =
                 IF json_loads(clean_control_characters(call.data.s)).ok
                 THEN json_loads(clean_control_characters(call.data.s)).val
                 ELSE PyNone
    /\ (/\ ClassifiedText
        /\ ParsedCall.t = "dict"
        /\ DictGet(ParsedCall, "msg", PyStr("")).t = "str"
        /\ Contains(DictGet(ParsedCall, "msg", PyStr("")).s, "37040"))
       => ret.status = "ups_code"

\* A serial that contains 37040 was classified ups_code.
C11_Witness ==
    /\ call.fn = "check_payload"
    /\ call.data = PyStr(RcScanUpsDigits)
    /\ ret.status = "ups_code"
    /\ ret.payload_json.t = "dict"

\* The msg of the call is an RC code: 13 characters, 'RC-', and three
\* parts between '-', the second and third alphanumeric of 3 and 6 characters.
RcCodeAsMsg ==
    /\ ParsedCall.t = "dict"
    /\ DictGet(ParsedCall, "msg", PyStr("")).t = "str"
    /\ LET msg == DictGet(ParsedCall, "msg", PyStr("")).s IN
       /\ Len(msg) = 13
       /\ SubSeq(msg, 1, 3) = "RC-"
       /\ CharAt(msg, 7) = "-"
       /\ \A i \in {4, 5, 6} \cup (8 .. 13) : CharAt(msg, i) \in Digits \cup Letters

\* C12: a payload without 37040 that parses as a JSON object whose msg is an
\* RC code is classified valid_rc_format, with the parsed object as body.
C12_RcCodeIsValid ==
    (ClassifiedText /\ RcCodeAsMsg /\ ~Contains(call.data.s, "37040"))
    => /\ ret.raised = ""
       /\ ret.status = "valid_rc_format"
       /\ ret.payload_json = ParsedCall

\* An RC code with letters in it was classified valid_rc_format.
C12_Witness ==
    /\ call.fn = "check_payload"
    /\ call.data = PyStr(RcScanAlnum)
    /\ ret.status = "valid_rc_format"
    /\ ret.payload_json = ParsedCall

(***************************************************************************)
(* The handler with every kind of payload (SpecWide)                       *)
(***************************************************************************)
\* The values of data.get('payload', '{}'): every payload string, a payload
\* that is not a string, and a body without a payload.
WidePayloads ==
    {PyStr(s) : s \in PayloadStrings} \cup {PyStr(""), PyNone, PyInt("5"), PyMissing}

\* Every payload on an allowed topic, and a scan and an order on a topic that
\* is not allowed.
WideRequests ==
    [topic : {"production/ready"}, payload : WidePayloads]
        \cup [topic : {"sale/ready", "random/topic"},
              payload : {PyStr(RcScan), PyStr(UpsCodeRaw)}]

\* The clock reaches the timeout between two requests, or passes it.
WideSteps ==
    {cleanup_timeout * TicksPerSecond, (cleanup_timeout + 1) * TicksPerSecond}

\* The result of the database layer matters to a scan only.
WideResults(data) ==
    IF data.payload \in {PyStr(RcScan), PyStr(RcScanAlnum)} THEN BOOLEAN ELSE {TRUE}

\* How often the clock is advanced in a run with every kind of payload.
WideAdvances == 1

\* Time passes between two requests.
WideAdvance(step) ==
    /\ advances < WideAdvances
    /\ now' = now + step
    /\ advances' = advances + 1
    /\ frame' = IdleFrame
    /\ UNCHANGED <<pending_orders, threads, arrival, call, ret>>

\* POST /webhook/device with a body that is not a JSON object: get_json
\* raises, or data.get does.
HandleBadBody(raised) ==
    /\ frame' = Fault(NewFrame([topic |-> "", payload |-> PyMissing], FALSE), raised)
    /\ UNCHANGED <<pending_orders, now, advances, threads, arrival, call, ret>>

NextWide ==
    \/ \E data \in WideRequests : \E db_ok \in WideResults(data) :
           HandleDeviceScan(data, db_ok)
    \/ \E raised \in {"BadRequest", "AttributeError"} : HandleBadBody(raised)
    \/ \E step \in WideSteps : WideAdvance(step)

SpecWide == Init /\ [][NextWide]_vars

(***************************************************************************)
(* Properties of the handler with every kind of payload (SpecWide)         *)
(***************************************************************************)
\* C13: every request ends with one response whose status is 200, 400, 403
\* or 500, whatever the body, the classification and the result or the
\* exception of what the handler calls.
C13_AlwaysAResponse ==
    /\ frame.pc \in {"idle", "done"}
    /\ frame.pc = "done" => frame.response.code \in {200, 400, 403, 500}

\* An exception raised under the handler was answered with a 500.
C13_Witness ==
    /\ frame.pc = "done"
    /\ frame.data.payload = PyStr(UpsNumber)
    /\ frame.response.code = 500
    /\ frame.response.error = "Server error"
    /\ frame.response.details = "AttributeError"

\* The outcomes of check_payload
Categories ==
    {"valid_rc_format", "invalid_rc_format", "fedex_warehouse",
     "non_fedex_warehouse", "ups_code", "tracking_code", "incorrect_format"}

\* A payload value that is malformed: not a string, empty, not JSON, JSON
\* that is not an object, or an object whose msg is missing, null or not a
\* string.
Malformed(payload) ==
    \/ payload.t # "str"
    \/ payload.s = ""
    \/ ~json_loads(payload.s).ok
    \/ json_loads(payload.s).val.t # "dict"
    \/ DictGet(json_loads(payload.s).val, "msg", PyNone).t # "str"

\* C14: for every malformed payload value check_payload returns one of the
\* seven categories and raises nothing to the dispatcher.
C14_MalformedIsClassified ==
    (call.fn = "check_payload" /\ Malformed(call.data))
    => /\ ret.raised = ""
       /\ ret.status \in Categories

\* The device id of a payload: the id of the JSON object, '' when the object
\* has none or the payload is not JSON; no id for other JSON values.
IdOfPayload(payload) ==
    IF ~Loads(Cleaned(payload.s)).ok THEN PyStr("")
    ELSE IF Loads(Cleaned(payload.s)).val.t # "dict" THEN PyOther
    ELSE DictGet(Loads(Cleaned(payload.s)).val, "id", PyStr(""))

\* The request of the frame fr was classified as an order or as a UPS code
\* and its payload has a device id that can be a key.
OrderSighted(fr) ==
    /\ fr.pc = "done"
    /\ fr.status \in {"fedex_warehouse", "non_fedex_warehouse", "ups_code"}
    /\ IdOfPayload(fr.data.payload) # PyOther
    /\ Hashable(IdOfPayload(fr.data.payload))

\* The registry po holds, for the request of fr, an order of its type
\* registered at t, and what the registry before held for the other devices.
RegisteredBy(fr, before, po, t) ==
    /\ DOMAIN po = DOMAIN before \cup {DictKey(IdOfPayload(fr.data.payload))}
    /\ po[DictKey(IdOfPayload(fr.data.payload))].type = fr.status
    /\ po[DictKey(IdOfPayload(fr.data.payload))].timestamp = t
    /\ \A d \in DOMAIN before \ {DictKey(IdOfPayload(fr.data.payload))} :
           po[d] = before[d]

C16_ResolutionNever500 ==
    (/\ frame.pc = "done"
     /\ frame.status \in {"ups_code", "tracking_code"}
     /\ "process_tracking_code" \in frame.ran)
    => frame.response.code \in {200, 400}

\* The payload parses as a JSON object whose id has an order in po.
IdPendingIn(payload, po) ==
    /\ payload.t = "str"
    /\ Loads(Cleaned(payload.s)).ok
    /\ Loads(Cleaned(payload.s)).val.t = "dict"
    /\ Hashable(IdOfPayload(payload))
    /\ DictKey(IdOfPayload(payload)) \in DOMAIN po

\* C17: a payload classified incorrect_format that parses as a JSON object
\* whose id has a pending order (after the sweep) is handled as a resolution
\* attempt for that id, which takes the order out of the registry.
C17_RecoveryResolves ==
    [][(/\ frame'.pc = "done"
        /\ frame'.status = "incorrect_format"
        /\ IdPendingIn(frame'.data.payload, cleanup_expired(pending_orders, now)))
       => /\ "process_tracking_code" \in frame'.ran
          /\ DictKey(IdOfPayload(frame'.data.payload)) \notin DOMAIN pending_orders']_vars

(***************************************************************************)
(* scripts/sale.py: BarcodeValidator                                       *)
(***************************************************************************)
\* What '$' allows at the end of a pattern: the end of the text, or the
\* place before a newline that ends the text.
BeforeDollar(s) ==
    IF Len(s) > 0 /\ CharAt(s, Len(s)) = "\n"
    THEN {s, SubSeq(s, 1, Len(s) - 1)}
    ELSE {s}

AllDigits(s, from, to) == \A i \in from .. to : CharAt(s, i) \in Digits

\* '.' matches every character but the newline.
NoNewline(s, from, to) == \A i \in from .. to : CharAt(s, i) # "\n"

\* ^634240\d{6}$
MatchAccessory(s) ==
    \E body \in BeforeDollar(s) :
        /\ Len(body) = 12
        /\ SubSeq(body, 1, 6) = "634240"
        /\ AllDigits(body, 7, 12)

\* A faulty variant of MatchRc: a pattern with five digits at the end.
MatchRcShort(s) ==
    \E body \in BeforeDollar(s) :
        /\ Len(body) = 12
        /\ SubSeq(body, 1, 3) = "RC-"
        /\ AllDigits(body, 4, 6)
        /\ CharAt(body, 7) = "-"
        /\ AllDigits(body, 8, 12)

\* ^RC-\d{3}-\d{6}$
MatchRc(s) ==
    \E body \in BeforeDollar(s) :
        /\ Len(body) = 13
        /\ SubSeq(body, 1, 3) = "RC-"
        /\ AllDigits(body, 4, 6)
        /\ CharAt(body, 7) = "-"
        /\ AllDigits(body, 8, 13)

\* ^FBA.+U.+$
MatchFba(s) ==
    \E body \in BeforeDollar(s) :
        /\ StartsWith(body, "FBA")
        /\ \E u \in 5 .. (Len(body) - 1) :
               /\ CharAt(body, u) = "U"
               /\ NoNewline(body, 4, u - 1)
               /\ NoNewline(body, u + 1, Len(body))

\* ^\d{34}$
MatchDigits34(s) ==
    \E body \in BeforeDollar(s) :
        /\ Len(body) = 34
        /\ AllDigits(body, 1, 34)

\* .+
MatchAny(s) == Len(s) > 0 /\ CharAt(s, 1) # "\n"

\* re.match(rule['pattern'], barcode)
re_match(pattern, barcode) ==
    CASE pattern = "^634240\\d{6}$" -> MatchAccessory(barcode)
      [] pattern = "^RC-\\d{3}-\\d{6}$" -> MatchRc(barcode)
      [] pattern = "^FBA.+U.+$" -> MatchFba(barcode)
      [] pattern = "^\\d{34}$" -> MatchDigits34(barcode)
      [] pattern = ".+" -> MatchAny(barcode)

\* rule['extractor'](barcode); raised when bc.index('U') finds no U
Extracted(raised, serial) == [raised |-> raised, serial |-> serial]

extractor(rule, bc) ==
    CASE rule.extractor = "bc" -> Extracted(FALSE, bc)
      [] rule.extractor = "FBA{bc[3:bc.index('U')]}" ->
            IF FirstOf(bc, 1, {"U"}) = 0 THEN Extracted(TRUE, "")
            ELSE Extracted(FALSE, "FBA" \o SubSeq(bc, 4, FirstOf(bc, 1, {"U"}) - 1))
      [] rule.extractor = "bc[-12:]" -> Extracted(FALSE, LastChars(bc, 12))

Rule(name, pattern, extract, min_length, max_length) ==
    [name |-> name, pattern |-> pattern, extractor |-> extract,
     min_length |-> min_length, max_length |-> max_length]

\* self.rules
rules ==
    << Rule("Acccesory", "^634240\\d{6}$", "bc", 12, 12),
       Rule("RC", "^RC-\\d{3}-\\d{6}$", "bc", 13, 13),
       Rule("Amazon", "^FBA.+U.+$", "FBA{bc[3:bc.index('U')]}", 19, 19),
       Rule("Shopify", "^\\d{34}$", "bc[-12:]", 34, 34),
       Rule("Amazon", ".+", "bc", 10, 12) >>

\* The three tests of the loop body on a rule
RuleApplies(rule, barcode) ==
    /\ rule.min_length <= Len(barcode)
    /\ Len(barcode) <= rule.max_length
    /\ re_match(rule.pattern, barcode)

Validation(valid, serial, type, original, error) ==
    [valid |-> valid, serial |-> serial, type |-> type, original |-> original,
     error |-> error]

\* The loop of validate from the rule i on
RECURSIVE validate_from(_, _)
validate_from(barcode, i) ==
    IF i > Len(rules)
    THEN Validation(FALSE, PyNone, "Unknown", barcode,
                    "No matching pattern for barcode length")
    ELSE IF RuleApplies(rules[i], barcode) /\ ~extractor(rules[i], barcode).raised
    THEN Validation(TRUE, PyStr(extractor(rules[i], barcode).serial),
                    rules[i].name, barcode, "")
    ELSE validate_from(barcode, i + 1)

\* BarcodeValidator.validate(barcode)
validate(barcode) == validate_from(Strip(barcode), 1)

(***************************************************************************)
(* scripts/sale.py and scripts/manufacturing.py: the two side effects      *)
(***************************************************************************)
SALE_ALLOWED_TOPICS == {"sale/ready"}

MANUFACTURING_ALLOWED_TOPICS == {"production/ready"}

\* What a collaborator was asked to do
Effect(fn, serial) == [fn |-> fn, serial |-> serial]

\* A script's run: its exit code, the error or status it prints, the calls
\* it made to its collaborators, and the db_written it reports
Exit(code, printed, effects, db_written) ==
    [code |-> code, printed |-> printed, effects |-> effects,
     db_written |-> db_written]

\* The results of RadiacodeManager().Write...Date(serial)
DbResults == {"ok", "false", "raises"}

\* The results of the InvenTree queue: the check of the endpoint fails, the
\* post is refused, the post is accepted
QueueResults == {"unreachable", "refused", "ok"}

\* The results of the Flask queue: 202, another status, no connection
FlaskResults == {"accepted", "refused", "unreachable"}

\* write_to_db(serial, barcode_type, scanner_id): the calls it makes
write_to_db_effects(serial) ==
    IF ~StartsWith(serial, "RC-") THEN <<>> ELSE <<Effect("WriteSaleDate", serial)>>

\* write_to_db(serial, barcode_type, scanner_id): what it returns
write_to_db(serial, db) ==
    IF ~StartsWith(serial, "RC-") THEN TRUE ELSE db = "ok"

\* send_to_shipping_queue(serial, barcode_type, scanner_id, original_barcode):
\* the calls it makes
send_to_shipping_queue(serial, queue) ==
    IF queue = "unreachable"
    THEN <<Effect("get-queue", "")>>
    ELSE <<Effect("get-queue", ""), Effect("add-to-queue", serial)>>

\* process_sale from the validated barcode on
sale_validated(barcode, result, db, queue) ==
    IF ~result.valid
    THEN Exit(1, result.error, <<>>, FALSE)
    ELSE Exit(0, "success",
              write_to_db_effects(result.serial.s)
                  \o send_to_shipping_queue(result.serial.s, queue),
              write_to_db(result.serial.s, db))

\* process_sale from the parsed payload on
sale_parsed(parsed, db, queue) ==
    IF ~parsed.ok THEN Exit(1, "Invalid JSON payload", <<>>, FALSE)
    ELSE IF parsed.val.t # "dict" THEN Exit(1, "Server error", <<>>, FALSE)
    ELSE IF DictGet(parsed.val, "msg", PyStr("")).t # "str"
    THEN Exit(1, "Server error", <<>>, FALSE)
    ELSE sale_validated(Strip(DictGet(parsed.val, "msg", PyStr("")).s),
                        validate(DictGet(parsed.val, "msg", PyStr("")).s),
                        db, queue)

\* process_sale(data)
process_sale(data, db, queue) ==
    IF data.topic \notin SALE_ALLOWED_TOPICS
    THEN Exit(1, "Unauthorized topic", <<>>, FALSE)
    ELSE IF PayloadOf(data).t # "str" THEN Exit(1, "Server error", <<>>, FALSE)
    ELSE sale_parsed(json_loads(PayloadOf(data).s), db, queue)

\* validate_barcode(barcode)
validate_barcode(barcode) ==
    IF barcode = "" THEN [is_valid |-> FALSE, error_msg |-> "Barcode is required"]
    ELSE IF ~StartsWith(barcode, BARCODE_PREFIX) \/ Len(barcode) < MIN_BARCODE_LENGTH
    THEN [is_valid |-> FALSE, error_msg |-> "Invalid barcode format"]
    ELSE [is_valid |-> TRUE, error_msg |-> "OK"]

\* process_manufacturing from the barcode on
manufacturing_barcode(barcode, flask, db) ==
    IF ~validate_barcode(barcode).is_valid
    THEN Exit(1, validate_barcode(barcode).error_msg, <<>>, FALSE)
    ELSE IF flask # "accepted"
    THEN Exit(1, "Failed to send to Flask queue", <<Effect("add_serial", barcode)>>, FALSE)
    ELSE Exit(IF db = "ok" THEN 0 ELSE 1,
              CASE db = "ok" -> "success"
                [] db = "false" -> "Failed to record manufacturing date"
                [] db = "raises" -> "Server error",
              <<Effect("add_serial", barcode),
                Effect("WriteManufacturingDate", barcode)>>,
              db = "ok")

\* process_manufacturing from the parsed payload on
manufacturing_parsed(parsed, flask, db) ==
    IF ~parsed.ok THEN Exit(1, "Invalid JSON payload", <<>>, FALSE)
    ELSE IF parsed.val.t # "dict" THEN Exit(1, "Server error", <<>>, FALSE)
    ELSE IF DictGet(parsed.val, "msg", PyStr("")).t # "str"
    THEN Exit(1, "Server error", <<>>, FALSE)
    ELSE manufacturing_barcode(Strip(DictGet(parsed.val, "msg", PyStr("")).s),
                               flask, db)

\* process_manufacturing(data)
process_manufacturing(data, flask, db) ==
    IF ~\E allowed_topic \in MANUFACTURING_ALLOWED_TOPICS :
            data.topic = allowed_topic \/ StartsWith(data.topic, allowed_topic)
    THEN Exit(1, "Unauthorized topic", <<>>, FALSE)
    ELSE IF PayloadOf(data).t # "str" THEN Exit(1, "Server error", <<>>, FALSE)
    ELSE manufacturing_parsed(json_loads(PayloadOf(data).s), flask, db)

(***************************************************************************)
(* The scripts on their own (SpecScripts)                                  *)
(***************************************************************************)
\* Serials of devices: RC-ddd-dddddd
RcCodes ==
    {"RC-" \o a \o "-" \o b :
        a \in {"102", "000", "999"}, b \in {"011243", "000000", "999999", "370401"}}

\* Part numbers of accessories: 634240 and six digits
AccessoryCodes == {"634240" \o b : b \in {"000001", "123456", "999999"}}

\* An Amazon shipment label of 19 characters
FbaLabel == "FBA15K7XYZU00000123"

\* A Shopify code of 34 digits
ShopifyCode == "1234567890123456789012345678901234"

\* The barcodes of the scans: the codes of every rule, codes that miss a
\* rule by a character, and codes with white space around them.
Barcodes ==
    RcCodes \cup AccessoryCodes
        \cup {FbaLabel, ShopifyCode, "1234567890", "ABCDEFGHIJKL", "63424000001",
              "634240ABCDEF", "6342400000012", "RC-102-01124", "RC-102-0112433",
              "RC-1O2-011243", "RC_102_011243", "FBA15K7XYZ000000123",
              "123456789012345678901234567890123X", "short", "",
              " RC-102-011243\n", "\t634240000001 "}

\* The payload a scanner sends for a barcode that needs no escape in JSON
ScanOf(barcode) == "{\"msg\":\"" \o barcode \o "\",\"id\":\"s1\"}"

\* The payloads of the requests to the scripts
ScriptPayloads ==
    {PyStr(ScanOf(bc)) :
        bc \in {"RC-102-011243", "RC-000-370401", "634240000001", FbaLabel,
                ShopifyCode, "1234567890", "short", " RC-102-011243 "}}
        \cup {PyStr(NotJson), PyStr(NullMsg), PyStr(JsonNumber), PyNone, PyMissing}

ScriptRequests ==
    [topic : {"sale/ready", "production/ready", "production/ready/line2", "random/topic"},
     payload : ScriptPayloads]

\* validate(barcode)
Validate(barcode) ==
    /\ call' = [fn |-> "validate", barcode |-> barcode]
    /\ ret' = validate(barcode)
    /\ UNCHANGED <<pending_orders, now, advances, frame, threads, arrival>>

\* sale.py run with data on its standard input
ProcessSale(data, db, queue) ==
    /\ call' = [fn |-> "process_sale", data |-> data, db |-> db, queue |-> queue]
    /\ ret' = process_sale(data, db, queue)
    /\ UNCHANGED <<pending_orders, now, advances, frame, threads, arrival>>

\* manufacturing.py run with data on its standard input
ProcessManufacturing(data, flask, db) ==
    /\ call' = [fn |-> "process_manufacturing", data |-> data, db |-> db,
                queue |-> flask]
    /\ ret' = process_manufacturing(data, flask, db)
    /\ UNCHANGED <<pending_orders, now, advances, frame, threads, arrival>>

NextScripts ==
    \/ \E barcode \in Barcodes : Validate(barcode)
    \/ \E data \in ScriptRequests, db \in DbResults, queue \in QueueResults :
           ProcessSale(data, db, queue)
    \/ \E data \in ScriptRequests, flask \in FlaskResults, db \in DbResults :
           ProcessManufacturing(data, flask, db)

SpecScripts == Init /\ [][NextScripts]_vars

(***************************************************************************)
(* Properties of the scripts (SpecScripts)                                 *)
(***************************************************************************)
\* The request data carries a scan: a JSON object with a text as msg.
CarriesScan(data) ==
    /\ PayloadOf(data).t = "str"
    /\ json_loads(PayloadOf(data).s).ok
    /\ json_loads(PayloadOf(data).s).val.t = "dict"
    /\ DictGet(json_loads(PayloadOf(data).s).val, "msg", PyNone).t = "str"

\* The barcode of the scan that data carries
ScanIn(data) == Strip(DictGet(json_loads(PayloadOf(data).s).val, "msg", PyNone).s)

\* The collaborator calls of the script's run
Attempted == {ret.effects[i].fn : i \in 1 .. Len(ret.effects)}

\* C18: for every authorized request with a valid barcode both side effects
\* are attempted, whatever the result of the other: manufacturing.py forwards
\* to the Flask queue and writes the manufacturing date; sale.py writes the
\* sale date of a device serial and forwards to the InvenTree queue.
C18_BothAttempted ==
    /\ (/\ call.fn = "process_manufacturing"
        /\ call.data.topic \in MANUFACTURING_ALLOWED_TOPICS
        /\ CarriesScan(call.data)
        /\ StartsWith(ScanIn(call.data), "RC-")
        /\ Len(ScanIn(call.data)) >= 10)
       => {"add_serial", "WriteManufacturingDate"} \subseteq Attempted
    /\ (/\ call.fn = "process_sale"
        /\ call.data.topic \in SALE_ALLOWED_TOPICS
        /\ CarriesScan(call.data)
        /\ MatchRc(ScanIn(call.data)))
       => {"WriteSaleDate", "get-queue"} \subseteq Attempted

\* C19: validate returns valid, the type RC and the input as serial for
\* every string of 13 characters of the form RC-ddd-dddddd.
C19_RcSerialIsRc ==
    (/\ call.fn = "validate"
     /\ Len(call.barcode) = 13
     /\ SubSeq(call.barcode, 1, 3) = "RC-"
     /\ CharAt(call.barcode, 7) = "-"
     /\ \A i \in {4, 5, 6} \cup (8 .. 13) : CharAt(call.barcode, i) \in Digits)
    => /\ ret.valid
       /\ ret.type = "RC"
       /\ ret.serial = PyStr(call.barcode)

\* A serial was validated as RC.
C19_Witness ==
    /\ call.fn = "validate"
    /\ call.barcode = "RC-999-370401"
    /\ ret.valid
    /\ ret.type = "RC"
    /\ ret.serial = PyStr("RC-999-370401")

\* C20: a string of 12 characters that is 634240 and six digits is reported
\* with the type Accessory and itself as serial, never with the type Amazon
\* of the catch-all for 10 to 12 characters.
C20_AccessoryFirst ==
    (/\ call.fn = "validate"
     /\ Len(call.barcode) = 12
     /\ SubSeq(call.barcode, 1, 6) = "634240"
     /\ \A i \in 7 .. 12 : CharAt(call.barcode, i) \in Digits)
    => /\ ret.valid
       /\ ret.type = "Accessory"
       /\ ret.serial = PyStr(call.barcode)

(***************************************************************************)
(* Properties of the registry under the handler (SpecWide)                 *)
(***************************************************************************)
\* C21: only register_order, process_tracking_code and cleanup_expired
\* change the registry: a request that ran neither register_order nor
\* process_tracking_code leaves the registry as the sweep left it, a request
\* answered before the sweep leaves it as it was, and a resolution that
\* found no order changes nothing.
C21_OnlyTheStoreMutates ==
    [][/\ (/\ frame'.pc = "done"
           /\ "cleanup_expired" \in frame'.ran
           /\ frame'.ran \cap {"register_order", "process_tracking_code"} = {})
          => pending_orders' = cleanup_expired(pending_orders, now)
       /\ (frame'.pc = "done" /\ "cleanup_expired" \notin frame'.ran)
          => pending_orders' = pending_orders
       /\ (/\ frame'.pc = "done"
           /\ frame'.response.message \in {"No pending order for this device",
                                           "No pending order found for tracking code"})
          => pending_orders' = cleanup_expired(pending_orders, now)]_vars

\* A short code of a device without an order was looked up while another
\* device's order is pending, and the order is still there.
C21_Witness ==
    /\ frame.pc = "done"
    /\ frame.data.payload = PyStr(ShortCode)
    /\ frame.status = "incorrect_format"
    /\ PyStr("s1") \in DOMAIN pending_orders
    /\ frame.ran = {"cleanup_expired", "check_payload"}

\* The msg of the payload of the frame fr, '' when the payload has none
FollowUpMsg(fr) ==
    DictGet(Loads(Cleaned(fr.data.payload.s)).val, "msg", PyStr("")).s

\* The last 12 characters of a text, the text itself when it is shorter
Last12(m) == IF Len(m) >= 12 THEN SubSeq(m, Len(m) - 11, Len(m)) ELSE m

C22_LongWitness ==
    /\ frame.pc = "done"
    /\ frame.data.payload = PyStr(TrackingCode)
    /\ frame.saved.kind = "non_fedex_warehouse"
    /\ frame.saved.number = PyStr("A10123456784")

\* The cleaned payload of the call as a JSON value
CleanedCall == Loads(Cleaned(call.data.s))

\* The msg and the id of the JSON object of the call
CallMsg == DictGet(CleanedCall.val, "msg", PyStr(""))

CallId == DictGet(CleanedCall.val, "id", PyStr(""))

\* check_payload was called with a JSON object with a text as msg and a text
\* or nothing as id that is neither a UPS code nor a msg of 13 characters
\* starting with RC-.
PlainObject ==
    /\ ClassifiedText
    /\ ~Contains(Cleaned(call.data.s), "37040")
    /\ CleanedCall.ok
    /\ CleanedCall.val.t = "dict"
    /\ CallMsg.t = "str"
    /\ CallId.t = "str"
    /\ ~(Len(CallMsg.s) = 13 /\ StartsWith(CallMsg.s, "RC-"))

\* C23: for such an object check_payload answers fedex_warehouse when msg
\* holds FBA and both warehouse markers, else non_fedex_warehouse when msg is
\* longer than 50 characters, else tracking_code exactly when the id is
\* pending, else incorrect_format; a msg longer than 50 characters is never
\* a tracking_code.
C23_OrderOfTheTests ==
    /\ PlainObject
       => /\ ret.raised = ""
          /\ ret.status =
                 IF /\ Contains(CallMsg.s, "FBA")
                    /\ Contains(CallMsg.s, "Coventry, West Midlands")
                    /\ Contains(CallMsg.s, "Lyons Park")
                 THEN "fedex_warehouse"
                 ELSE IF Len(CallMsg.s) > 50 THEN "non_fedex_warehouse"
                 ELSE IF CallId.s # "" /\ CallId \in DOMAIN pending_orders
                 THEN "tracking_code"
                 ELSE "incorrect_format"
    /\ (PlainObject /\ Len(CallMsg.s) > 50) => ret.status # "tracking_code"

\* A follow-up longer than 50 characters for a device with a pending order
\* was classified as a new order.
C23_Witness ==
    /\ call.fn = "check_payload"
    /\ call.data = PyStr(NonFedexOrder)
    /\ PyStr("d1") \in DOMAIN pending_orders
    /\ ret.status = "non_fedex_warehouse"

(***************************************************************************)
(* Properties of the RC shape checks                                       *)
(***************************************************************************)
\* The text is RC, three alphanumeric characters and six alphanumeric
\* characters, joined by '-': what the hyphen decomposition accepts of a
\* text that starts with RC-.
RcDecomposes(text) ==
    /\ Len(text) = 13
    /\ CharAt(text, 7) = "-"
    /\ \A i \in {4, 5, 6} \cup (8 .. 13) : CharAt(text, i) \in Digits \cup Letters

\* The handler classified the payload of an authorized request, a text
\* without 37040.
ShapeChecked ==
    /\ frame.pc = "done"
    /\ topic_allowed(frame.data.topic)
    /\ frame.data.payload.t = "str"
    /\ frame.data.payload.s # ""
    /\ ~Contains(Cleaned(frame.data.payload.s), "37040")

\* The payload of the frame is a JSON object whose msg is a text of 13
\* characters that starts with RC-.
RcMsgInFrame ==
    /\ Loads(Cleaned(frame.data.payload.s)).ok
    /\ Loads(Cleaned(frame.data.payload.s)).val.t = "dict"
    /\ DictGet(Loads(Cleaned(frame.data.payload.s)).val, "msg", PyNone).t = "str"
    /\ Len(FollowUpMsg(frame)) = 13
    /\ StartsWith(FollowUpMsg(frame), "RC-")

C24_MsgWitness ==
    /\ frame.pc = "done"
    /\ frame.data.payload = PyStr(BadRcMsg)
    /\ frame.status = "incorrect_format"
    /\ frame.response.code = 400

(***************************************************************************)
(* The classifier on payloads of 39 characters (SpecShape)                 *)
(***************************************************************************)
\* A text of n letters
RECURSIVE Pad(_)
Pad(n) == IF n <= 0 THEN "" ELSE "a" \o Pad(n - 1)

\* Where a payload of 39 characters has its hyphens after RC-
HyphenAt == (4 .. 16) \cup {39}

\* The payloads of 39 characters that start with RC-: letters with no, one
\* or two hyphens among them
Rc39Strings ==
    {"RC-" \o Pad(36)}
        \cup {"RC-" \o Pad(h - 4) \o "-" \o Pad(39 - h) : h \in HyphenAt}
        \cup {"RC-" \o Pad(h[1] - 4) \o "-" \o Pad(h[2] - h[1] - 1) \o "-" \o Pad(39 - h[2]) :
                 h \in {p \in HyphenAt \X HyphenAt : p[1] < p[2]}}

ShapePayloads == PayloadValues \cup {PyStr(s) : s \in Rc39Strings}

NextShape == \E payload_str \in ShapePayloads : CheckPayload(payload_str)

SpecShape == Init /\ [][NextShape]_vars

\* C25: every cleaned payload of 39 characters that starts with RC- and has
\* no 37040 in it is classified invalid_rc_format, and whenever the
\* classification is valid_rc_format the body is a parsed JSON object whose
\* msg has 13 characters.
C25_ValidRcIsAnObject ==
    /\ (/\ ClassifiedText
        /\ Len(clean_control_characters(call.data.s)) = 39
        /\ StartsWith(clean_control_characters(call.data.s), "RC-")
        /\ ~Contains(clean_control_characters(call.data.s), "37040"))
       => ret.status = "invalid_rc_format"
    /\ (call.fn = "check_payload" /\ ret.status = "valid_rc_format")
       => /\ ret.payload_json.t = "dict"
          /\ DictGet(ret.payload_json, "msg", PyNone).t = "str"
          /\ Len(DictGet(ret.payload_json, "msg", PyNone).s) = 13

\* A payload of 39 characters that begins like a serial, RC-aaa-aaaaaa-,
\* was classified invalid_rc_format.
C25_Witness ==
    /\ call.fn = "check_payload"
    /\ call.data = PyStr("RC-aaa-aaaaaa-" \o Pad(25))
    /\ ret.status = "invalid_rc_format"
    /\ ret.payload_json = PyNone

(***************************************************************************)
(* Further properties of the handler (Spec)                                *)
(***************************************************************************)
\* C26: for every topic that passes the authorization a payload classified
\* valid_rc_format leads to one write and to a response that depends on the
\* result of the write only, 200 or 500 'Failed to record'; the handler
\* never answers 'Unknown topic'.
C26_NoUnknownTopic ==
    (/\ frame.pc = "done"
     /\ topic_allowed(frame.data.topic)
     /\ frame.status = "valid_rc_format")
    => /\ frame.response.error # "Unknown topic"
       /\ Len(frame.calls) = 1
       /\ frame.response.code = IF frame.db_ok THEN 200 ELSE 500

\* C27: with one request at a time and the clock standing still during a
\* request, the handler never answers 'Tracking code timeout', and every
\* order that a resolution takes from the registry is younger than a second
\* past its timeout: a follow-up that arrives later finds no order.
C27_NoTimeoutAnswer ==
    [][/\ frame'.response.message # "Tracking code timeout"
       /\ (/\ frame'.pc = "done"
           /\ "process_tracking_code" \in frame'.ran
           /\ DictKey(frame'.device_id) \in DOMAIN pending_orders)
          => Age(pending_orders[DictKey(frame'.device_id)], now)
                 < TimeoutTicks + TicksPerSecond]_vars

\* The answer alone: no request is answered 'Tracking code timeout'.
NeverTimeoutAnswer == frame.response.message # "Tracking code timeout"

\* C28: every key of the registry is a non-empty string, the id of the
\* parsed JSON object that is the entry's order_data: no message without an
\* id, and no message that is not JSON, has an order in the registry.
C28_KeysAreIds ==
    \A d \in DOMAIN pending_orders :
        /\ d.t = "str"
        /\ d.s # ""
        /\ pending_orders[d].order_data.t = "dict"
        /\ DictKey(DictGet(pending_orders[d].order_data, "id", PyNone)) = d

(***************************************************************************)
(* Further properties of two requests handled at once (SpecConc)           *)
(***************************************************************************)
\* Both threads handle a tracking code of the device d1, whose order was in
\* the registry when the two requests arrived.
TwoResolutions ==
    /\ PyStr("d1") \in DOMAIN arrival.po
    /\ \A th \in Threads : threads[th].data.payload = PyStr(TrackingCode)

\* C29: two tracking codes for one pending order handled at once, each with
\* its sweep, end with at most one success and a 400 for every other
\* request: no pop and no del fails on a key that the other thread removed,
\* and no request ends in a 500.
C29_OneSuccessNoFault ==
    (/\ TwoResolutions
     /\ \A th \in Threads : threads[th].pc = "done")
    => /\ \A th \in Threads :
              \/ /\ threads[th].response.code = 200
                 /\ threads[th].response.status = "success"
              \/ threads[th].response.code = 400
       /\ Cardinality({th \in Threads :
                          threads[th].response.status = "success"}) <= 1

\* The calls to WriteSaleDate of the script's run
SaleWrites ==
    {i \in 1 .. Len(ret.effects) : ret.effects[i].fn = "WriteSaleDate"}

\* C30: sale.py reports db_written only when it called WriteSaleDate and the
\* call returned true; it calls WriteSaleDate exactly once, with the serial,
\* for every valid barcode of every type on an allowed topic; and it exits
\* with 0 only when the sale date was written.
C30_WrittenMeansWritten ==
    call.fn = "process_sale"
    => /\ ret.db_written => (SaleWrites # {} /\ call.db = "ok")
       /\ (/\ call.data.topic \in SALE_ALLOWED_TOPICS
           /\ CarriesScan(call.data)
           /\ validate(ScanIn(call.data)).valid)
          => /\ Cardinality(SaleWrites) = 1
             /\ \A i \in SaleWrites :
                    ret.effects[i].serial = validate(ScanIn(call.data)).serial.s
       /\ ret.code = 0 => (SaleWrites # {} /\ call.db = "ok")
====
